---- MODULE Spec2Model ----
(***************************************************************************)
(* A model of the reliable-datagram engine of jstnlef/mercury              *)
(* (protocol/src/connection.rs, segment.rs, lib.rs), of its Endpoint       *)
(* (endpoint.rs, config.rs, metrics.rs, streams.rs) and of its             *)
(* SequenceBuffer (sequence_buffer.rs).                                    *)
(*                                                                         *)
(* An engine (ReliableConnection) is a record with the fields of the Rust  *)
(* struct; every public operation is an operator from an engine (and its   *)
(* arguments) to the engine after the call and the call's result.  Byte    *)
(* buffers are sequences of numbers 0..255, and the wire format is the     *)
(* 24-byte big-endian header of Segment::encode followed by the payload.   *)
(***************************************************************************)
EXTENDS Integers, Sequences, FiniteSets, TLC

VARIABLES
    sender,     \* the sending application's ReliableConnection
    receiver,   \* the receiving application's ReliableConnection
    wire_sr,    \* encoded segments produced by the sender's flush, in flight
    wire_rs,    \* encoded segments produced by the receiver's flush, in flight
    sent,       \* payloads accepted by sender.send, in call order
    delivered,  \* messages returned by successful receiver.recv, in call order
    fed,        \* sequence numbers of the PUSH segments given to receiver.input
    endpoint,   \* the application's Endpoint
    fragment_buffer, \* a SequenceBuffer
    last,       \* the last public call: its name, argument, result, and the engine before it
    steps       \* number of public calls made so far

vars == <<sender, receiver, wire_sr, wire_rs, sent, delivered, fed, endpoint, fragment_buffer,
          last, steps>>

(***************************************************************************)
(* Protocol constants (lib.rs).                                            *)
(***************************************************************************)
RTO_NDL == 30
RTO_MIN == 100
RTO_DEF == 200
RTO_MAX == 60000
CMD_PUSH == 81
CMD_ACK == 82
CMD_WASK == 83
CMD_WINS == 84
ASK_SEND == 1
ASK_TELL == 2
SEND_WINDOW_SIZE == 32
RECV_WINDOW_SIZE == 32
DEFAULT_MTU == 1400
PROTOCOL_OVERHEAD == 24
DEADLINK == 20
THRESH_INIT == 2
THRESH_MIN == 2
PROBE_INIT == 7000
PROBE_LIMIT == 120000
MIN_MTU == 50
FLUSH_DRIFT == 10000

\* u32::max_value() does not fit the model checker's 32-bit signed integers;
\* the largest value it can hold stands for it where the code uses it as
\* "never reached" (flush, line 702).
U32_MAX == 2147483647

(***************************************************************************)
(* Bounds of the model.                                                    *)
(***************************************************************************)
MaxSendSteps == 3   \* public calls per behaviour of SpecSend
MaxRecvSteps == 5   \* public calls per behaviour of SpecRecv
MaxFeeds == 3       \* input calls per behaviour of SpecRecv
MaxLinkSteps == 6   \* public calls per behaviour of SpecLink
MaxConfigSteps == 3 \* public calls per behaviour of SpecConfig
MaxDeadSteps == 23  \* public calls per behaviour of SpecDead
MaxDeadSends == 2   \* sends per behaviour of SpecDead
MaxWrapSteps == 1   \* calls per behaviour of SpecWrap
MaxInputSteps == 2  \* public calls per behaviour of SpecInput
MaxReasmSteps == 6  \* public calls per behaviour of SpecReasm
MaxEndpointSteps == 2 \* public calls per behaviour of SpecEndpoint
MaxBufferSteps == 5 \* public calls per behaviour of SpecBuffer
MaxCompareSteps == 1 \* comparisons per behaviour of SpecCompare
MaxWindowSteps == 4 \* public calls per behaviour of SpecWindow
MaxAckSteps == 4    \* public calls per behaviour of SpecAck
MaxFlightSteps == 4 \* public calls per behaviour of SpecFlight
MaxProbeSteps == 4  \* public calls per behaviour of SpecProbe
MaxProbes == 9      \* window probes sent before a behaviour of SpecProbe starts
BufferSize == 4     \* capacity of the SequenceBuffer of the specifications
BigBuffer == 64     \* a recv buffer longer than any message of the specifications
SessionId == 1      \* the session id both engines are constructed with

(***************************************************************************)
(* Integer helpers.                                                        *)
(***************************************************************************)
Min(a, b) == IF a < b THEN a ELSE b
Max(a, b) == IF a > b THEN a ELSE b

\* A u32 result.  Every counter, sequence number and time of the
\* specifications below stays far under 2^31, so no u32 operation of the code
\* wraps and none leaves the range of `as i32`; the operator marks the places
\* where the code computes in u32.
U32(x) == x

\* fn time_diff(later: u32, earlier: u32) -> i32 { later as i32 - earlier as i32 }
time_diff(later, earlier) == later - earlier

\* fn bound(lower, value, upper) = min(max(lower, value), upper)
bound(lower, value, upper) == Min(Max(lower, value), upper)

RECURSIVE Concat(_)
\* the concatenation of a sequence of byte sequences
Concat(ss) == IF ss = <<>> THEN <<>> ELSE Head(ss) \o Concat(Tail(ss))

RECURSIVE SumLen(_)
\* the total length of a sequence of byte sequences
SumLen(ss) == IF ss = <<>> THEN 0 ELSE Len(Head(ss)) + SumLen(Tail(ss))

DropFirst(s, k) == SubSeq(s, k + 1, Len(s))
TakeFirst(s, k) == SubSeq(s, 1, k)

IsPrefix(s, t) == Len(s) <= Len(t) /\ s = SubSeq(t, 1, Len(s))

(***************************************************************************)
(* Segment (segment.rs).                                                   *)
(***************************************************************************)
\* Segment::new(data): every header and shadow field zero.
NewSegment(data) ==
    [session_id |-> 0, command |-> 0, fragment_id |-> 0, window_size |-> 0,
     timestamp |-> 0, sequence_num |-> 0, unacked_sequence_num |-> 0,
     resend_time |-> 0, rto |-> 0, fastack |-> 0, xmit |-> 0, data |-> data]

BE32(v) == << (v \div 16777216) % 256, (v \div 65536) % 256, (v \div 256) % 256, v % 256 >>
BE16(v) == << (v \div 256) % 256, v % 256 >>

\* Segment::encode: the 24-byte big-endian header, then the payload.
Encode(seg) ==
    BE32(seg.session_id) \o << seg.command % 256, seg.fragment_id % 256 >>
        \o BE16(seg.window_size) \o BE32(seg.timestamp) \o BE32(seg.sequence_num)
        \o BE32(seg.unacked_sequence_num) \o BE32(Len(seg.data)) \o seg.data

\* Cursor::get_u32_be / get_u16_be / get_u8 at 0-based offset pos.
GetU8(buf, pos) == buf[pos + 1]
GetU16(buf, pos) == buf[pos + 1] * 256 + buf[pos + 2]
GetU32(buf, pos) ==
    buf[pos + 1] * 16777216 + buf[pos + 2] * 65536 + buf[pos + 3] * 256 + buf[pos + 4]

(***************************************************************************)
(* ReliableConnection::new (connection.rs).                                *)
(***************************************************************************)
NewConnection(session_id) ==
    [session_id |-> session_id,
     max_transmission_unit |-> DEFAULT_MTU,
     max_segment_size |-> DEFAULT_MTU - PROTOCOL_OVERHEAD,
     connection_state |-> 0,
     unacked_send_sequence_num |-> 0,
     next_send_sequence_num |-> 0,
     next_recv_sequence_num |-> 0,
     ssthresh |-> THRESH_INIT,
     floating_rtt |-> 0,
     static_rtt |-> 0,
     calculated_rto |-> RTO_DEF,
     minimum_rto |-> RTO_MIN,
     send_window_size |-> SEND_WINDOW_SIZE,
     recv_window_size |-> RECV_WINDOW_SIZE,
     remote_window_size |-> RECV_WINDOW_SIZE,
     congestion_window_size |-> 0,
     probe |-> 0,
     current_time |-> 0,
     interval |-> 0,
     next_flush_time |-> 0,
     update_called |-> FALSE,
     xmit |-> 0,
     nodelay |-> 0,
     next_probe_time |-> 0,
     probe_wait |-> 0,
     dead_link |-> DEADLINK,
     incr |-> 0,
     send_queue |-> <<>>,
     recv_queue |-> <<>>,
     send_buffer |-> <<>>,
     recv_buffer |-> <<>>,
     ack_list |-> <<>>,
     payload_buffer |-> [len |-> 0, cap |-> (DEFAULT_MTU + PROTOCOL_OVERHEAD) * 3],
     fast_resend |-> 0,
     use_congestion_control |-> FALSE,
     in_streaming_mode |-> FALSE]

(***************************************************************************)
(* ReliableConnection::send.                                               *)
(***************************************************************************)
\* The streaming-mode prologue of send (lines 320-335): fill the tail segment
\* of send_queue up to max_segment_size.  Returns the engine, the bytes of
\* the payload not yet consumed, and whether send returns Ok right there.
SendStreamAppend(c, payload) ==
    IF c.in_streaming_mode /\ c.send_queue # <<>>
          /\ Len(c.send_queue[Len(c.send_queue)].data) < c.max_segment_size
    THEN LET k       == Len(c.send_queue)
             old     == c.send_queue[k].data
             new_len == Min(Len(old) + Len(payload), c.max_segment_size)
             take    == new_len - Len(old)
             tail    == [c.send_queue[k] EXCEPT !.data = old \o TakeFirst(payload, take),
                                                !.fragment_id = 0]
         IN  [conn |-> [c EXCEPT !.send_queue = [c.send_queue EXCEPT ![k] = tail]],
              rest |-> DropFirst(payload, take),
              done |-> take = Len(payload)]
    ELSE [conn |-> c, rest |-> payload, done |-> FALSE]

\* The number of fragments send computes for `remaining` bytes (lines 337-341).
NumFragments(remaining, mss) ==
    IF remaining <= mss THEN 1 ELSE (remaining + mss - 1) \div mss

\* The window the fragment count is compared with (line 343): the constant.
FragmentLimit(c) == RECV_WINDOW_SIZE

\* a fragmentation that numbers the fragments upwards
SendFragment_Ascending(c, rest, n, i) ==
    LET mss  == c.max_segment_size
        from == i * mss
        size == Min(mss, Max(Len(rest) - from, 0))
    IN  [NewSegment(SubSeq(rest, from + 1, from + size)) EXCEPT !.fragment_id = i]

\* The i-th (0-based) segment the fragmentation loop pushes (lines 352-363).
SendFragment(c, rest, n, i) ==
    LET mss  == c.max_segment_size
        from == i * mss
        size == Min(mss, Max(Len(rest) - from, 0))
    IN  [NewSegment(SubSeq(rest, from + 1, from + size))
            EXCEPT !.fragment_id = (IF ~c.in_streaming_mode THEN n - i - 1 ELSE 0) % 256]

\* send(payload): [conn |-> engine after the call, res |-> "Ok" or the error]
Send(c, payload) ==
    IF payload = <<>>
    THEN [conn |-> c, res |-> "EmptyPayload"]
    ELSE LET st == SendStreamAppend(c, payload)
         IN  IF st.done
             THEN [conn |-> st.conn, res |-> "Ok"]
             ELSE LET n0 == NumFragments(Len(st.rest), st.conn.max_segment_size)
                      n  == IF n0 = 0 THEN 1 ELSE n0
                  IN  IF n0 >= FragmentLimit(st.conn)
                      THEN [conn |-> st.conn, res |-> "FragmentsGreaterThanWindowSize"]
                      ELSE [conn |-> [st.conn EXCEPT !.send_queue =
                                        @ \o [i \in 1..n |-> SendFragment(st.conn, st.rest, n, i - 1)]],
                            res |-> "Ok"]

(***************************************************************************)
(* ReliableConnection::peek_size and recv.                                 *)
(***************************************************************************)
RECURSIVE RunLength(_)
\* How many segments `while let Some(segment) = pop_front() { ...; if
\* segment.fragment_id == 0 { break } }` takes from the queue: up to and
\* including the first one with fragment_id 0, or all of them.
RunLength(q) ==
    IF q = <<>> THEN 0
    ELSE IF Head(q).fragment_id = 0 THEN 1
    ELSE 1 + RunLength(Tail(q))

SegData(q) == [i \in 1..Len(q) |-> q[i].data]

\* a peek_size that reports the head segment alone
PeekSize_HeadOnly(c) ==
    IF c.recv_queue = <<>> \/ Len(c.recv_queue) < Head(c.recv_queue).fragment_id + 1
    THEN [res |-> "IncompleteMessage", n |-> 0]
    ELSE [res |-> "Ok", n |-> Len(Head(c.recv_queue).data)]

\* peek_size(): [res, n]
PeekSize(c) ==
    IF c.recv_queue = <<>>
    THEN [res |-> "IncompleteMessage", n |-> 0]
    ELSE LET segment == Head(c.recv_queue)
         IN  IF segment.fragment_id = 0
             THEN [res |-> "Ok", n |-> Len(segment.data)]
             ELSE IF Len(c.recv_queue) < segment.fragment_id + 1
             THEN [res |-> "IncompleteMessage", n |-> 0]
             ELSE [res |-> "Ok",
                   n |-> SumLen(SegData(TakeFirst(c.recv_queue, RunLength(c.recv_queue))))]

RECURSIVE RecvPromote(_)
\* recv, lines 154-164: move available data from recv_buffer to recv_queue.
\* The loop pops the head first; on `break` the popped segment is not put back.
RecvPromote(c) ==
    IF c.recv_buffer = <<>> THEN c
    ELSE LET segment == Head(c.recv_buffer)
             popped  == [c EXCEPT !.recv_buffer = Tail(@)]
         IN  IF segment.sequence_num = c.next_recv_sequence_num
                   /\ Len(c.recv_queue) < c.recv_window_size
             THEN RecvPromote([popped EXCEPT
                        !.recv_queue = Append(@, segment),
                        !.next_recv_sequence_num = U32(@ + 1)])
             ELSE popped

\* a guard that lets a buffer one byte short through
RecvBufferTooSmall_OffByOne(peek_size, buffer_len) == peek_size > buffer_len + 1

\* The guard of recv on the caller's buffer (line 136).
RecvBufferTooSmall(peek_size, buffer_len) == peek_size > buffer_len

\* recv past its empty-queue check (lines 134-173):
\* [conn, res, n |-> bytes written, data |-> the bytes written]
RecvMessage(c, buffer_len) ==
    LET peek == PeekSize(c)
    IN  IF peek.res # "Ok"
        THEN [conn |-> c, res |-> peek.res, n |-> 0, data |-> <<>>]
        ELSE IF RecvBufferTooSmall(peek.n, buffer_len)
        THEN [conn |-> c, res |-> "BufferTooSmall", n |-> 0, data |-> <<>>]
        ELSE LET fast_recover == Len(c.recv_queue) >= c.recv_window_size
                 k        == RunLength(c.recv_queue)
                 data     == Concat(SegData(TakeFirst(c.recv_queue, k)))
                 drained  == [c EXCEPT !.recv_queue = DropFirst(@, k)]
                 promoted == RecvPromote(drained)
                 told     == IF Len(promoted.recv_queue) < promoted.recv_window_size
                                   /\ fast_recover
                             THEN [promoted EXCEPT !.probe =
                                       IF (@ \div ASK_TELL) % 2 = 1 THEN @ ELSE @ + ASK_TELL]
                             ELSE promoted
             IN  [conn |-> told, res |-> "Ok", n |-> Len(data), data |-> data]

\* a recv that leaves the empty queue to peek_size
Recv_NoEmptyCheck(c, buffer_len) == RecvMessage(c, buffer_len)

\* recv(buffer) with a buffer of buffer_len bytes (lines 129-174)
Recv(c, buffer_len) ==
    IF c.recv_queue = <<>>
    THEN [conn |-> c, res |-> "EmptyRecvQueue", n |-> 0, data |-> <<>>]
    ELSE RecvMessage(c, buffer_len)

(***************************************************************************)
(* ReliableConnection::set_mtu and set_window_sizes.                       *)
(***************************************************************************)
\* BytesMut::resize(new_size, 0): the length becomes new_size; the capacity
\* grows (doubling, as the test at lines 895-913 records) when it is short.
Resize(pb, new_size) ==
    [len |-> new_size,
     cap |-> IF new_size <= pb.cap THEN pb.cap ELSE Max(2 * pb.cap, new_size)]

\* set_mtu sizing the buffer 3 x mtu
SetMtu_ThreeTimesMtu(c, mtu) ==
    IF mtu < MIN_MTU \/ mtu < PROTOCOL_OVERHEAD
    THEN [conn |-> c, res |-> "InvalidConfiguration"]
    ELSE [conn |-> [c EXCEPT !.max_transmission_unit = mtu,
                             !.max_segment_size = mtu - PROTOCOL_OVERHEAD,
                             !.payload_buffer = Resize(@, mtu * 3)],
          res |-> "Ok"]

SetMtu(c, mtu) ==
    IF mtu < MIN_MTU \/ mtu < PROTOCOL_OVERHEAD
    THEN [conn |-> c, res |-> "InvalidConfiguration"]
    ELSE [conn |-> [c EXCEPT !.max_transmission_unit = mtu,
                             !.max_segment_size = mtu - PROTOCOL_OVERHEAD,
                             !.payload_buffer = Resize(@, (mtu + PROTOCOL_OVERHEAD) * 3)],
          res |-> "Ok"]

SetWindowSizes(c, send_size, recv_size) ==
    [c EXCEPT !.send_window_size = send_size, !.recv_window_size = recv_size]

(***************************************************************************)
(* ReliableConnection::input and its helpers.                              *)
(***************************************************************************)
\* update_ack(rtt): the RTT / RTO estimator (lines 525-543).
UpdateAck(c, rtt) ==
    LET first == c.static_rtt = 0
        delta == IF rtt > c.static_rtt THEN rtt - c.static_rtt ELSE c.static_rtt - rtt
        frtt  == IF first THEN rtt \div 2 ELSE U32(3 * c.floating_rtt + delta) \div 4
        srtt0 == IF first THEN rtt ELSE U32(7 * c.static_rtt + rtt) \div 8
        srtt  == IF ~first /\ srtt0 < 1 THEN 1 ELSE srtt0
        rto   == U32(srtt + Max(c.interval, U32(4 * frtt)))
    IN  [c EXCEPT !.static_rtt = srtt, !.floating_rtt = frtt,
                  !.calculated_rto = bound(c.minimum_rto, rto, RTO_MAX)]

ShrinkBuffer_HeadOnly(c) ==
    IF c.send_buffer # <<>>
    THEN [c EXCEPT !.unacked_send_sequence_num = Head(c.send_buffer).sequence_num]
    ELSE c

\* shrink_buffer (lines 546-551).
ShrinkBuffer(c) ==
    [c EXCEPT !.unacked_send_sequence_num =
        IF c.send_buffer # <<>> THEN Head(c.send_buffer).sequence_num
        ELSE c.next_send_sequence_num]

RECURSIVE PopUnacked(_, _)
\* parse_unacked (lines 570-576): `while let Some(segment) = pop_front()`
\* pops a segment, then breaks if unacked_sequence_num <= its sn.
PopUnacked(buf, unacked_sequence_num) ==
    IF buf = <<>> THEN <<>>
    ELSE IF unacked_sequence_num <= Head(buf).sequence_num THEN Tail(buf)
    ELSE PopUnacked(Tail(buf), unacked_sequence_num)

ParseUnacked(c, unacked_sequence_num) ==
    [c EXCEPT !.send_buffer = PopUnacked(@, unacked_sequence_num)]

RECURSIVE RemoveAcked(_, _)
\* the loop of parse_ack (lines 559-567)
RemoveAcked(buf, sequence_num) ==
    IF buf = <<>> THEN <<>>
    ELSE IF sequence_num = Head(buf).sequence_num THEN Tail(buf)
    ELSE IF sequence_num < Head(buf).sequence_num THEN buf
    ELSE <<Head(buf)>> \o RemoveAcked(Tail(buf), sequence_num)

\* parse_ack (lines 553-568)
ParseAck(c, sequence_num) ==
    IF sequence_num < c.unacked_send_sequence_num \/ sequence_num >= c.next_send_sequence_num
    THEN c
    ELSE [c EXCEPT !.send_buffer = RemoveAcked(@, sequence_num)]

RECURSIVE BumpFastack(_, _)
\* the loop of parse_fastack (lines 584-590)
BumpFastack(buf, sequence_num) ==
    IF buf = <<>> THEN <<>>
    ELSE IF sequence_num < Head(buf).sequence_num THEN buf
    ELSE <<IF sequence_num # Head(buf).sequence_num
           THEN [Head(buf) EXCEPT !.fastack = U32(@ + 1)] ELSE Head(buf)>>
         \o BumpFastack(Tail(buf), sequence_num)

\* parse_fastack (lines 578-591)
ParseFastack(c, sequence_num) ==
    IF sequence_num < c.unacked_send_sequence_num \/ sequence_num >= c.next_send_sequence_num
    THEN c
    ELSE [c EXCEPT !.send_buffer = BumpFastack(@, sequence_num)]

RECURSIVE InsertScan(_, _, _)
\* parse_data, lines 490-500: walk recv_buffer from the tail; the result is
\* [repeat, index] with index the 0-based insertion point.
InsertScan(buf, sn, index) ==
    IF index = 0 THEN [repeat |-> FALSE, index |-> 0]
    ELSE IF sn = buf[index].sequence_num THEN [repeat |-> TRUE, index |-> index]
    ELSE IF sn > buf[index].sequence_num THEN [repeat |-> FALSE, index |-> index]
    ELSE InsertScan(buf, sn, index - 1)

InsertAt(buf, index, segment) ==
    TakeFirst(buf, index) \o <<segment>> \o DropFirst(buf, index)

RECURSIVE CountPromotable(_, _, _, _)
\* parse_data, lines 507-517: how many leading segments of recv_buffer are
\* moved, given the next expected sn and the recv_queue length so far.
CountPromotable(buf, next, queue_len, wnd) ==
    IF buf # <<>> /\ Head(buf).sequence_num = next /\ queue_len < wnd
    THEN 1 + CountPromotable(Tail(buf), U32(next + 1), queue_len + 1, wnd)
    ELSE 0

\* parse_data (lines 484-523)
ParseData(c, segment) ==
    LET sn == segment.sequence_num
    IN  IF sn >= U32(c.next_recv_sequence_num + c.recv_window_size)
              \/ sn < c.next_recv_sequence_num
        THEN c
        ELSE LET scan   == InsertScan(c.recv_buffer, sn, Len(c.recv_buffer))
                 buf    == IF scan.repeat THEN c.recv_buffer
                           ELSE InsertAt(c.recv_buffer, scan.index, segment)
                 index  == CountPromotable(buf, c.next_recv_sequence_num,
                                           Len(c.recv_queue), c.recv_window_size)
             IN  [c EXCEPT !.recv_buffer = DropFirst(buf, index),
                           !.recv_queue = @ \o TakeFirst(buf, index),
                           !.next_recv_sequence_num = U32(@ + index)]

SetBit(mask, bit) == IF (mask \div bit) % 2 = 1 THEN mask ELSE mask + bit
HasBit_LowestBit(mask, bit) == mask % 2 = 1
HasBit(mask, bit) == (mask \div bit) % 2 = 1

\* Whether the parser skips the payload of a PUSH segment it drops and of a
\* non-PUSH segment: the code reads the payload only for a PUSH it stores
\* (line 242), so the cursor stays at the payload otherwise.
PayloadSkip(command, stored, len) == IF command = CMD_PUSH /\ stored THEN len ELSE 0

\* The congestion-window growth at the end of input (lines 259-279).
InputGrowWindow(c, old_unacked) ==
    IF c.unacked_send_sequence_num > old_unacked
          /\ c.congestion_window_size < c.remote_window_size
    THEN LET mss == c.max_segment_size
             g   == IF c.congestion_window_size < c.ssthresh
                    THEN [c EXCEPT !.congestion_window_size = @ + 1, !.incr = U32(@ + mss)]
                    ELSE LET incr0 == IF c.incr < mss THEN mss ELSE c.incr
                             incr1 == U32(incr0 + (U32(mss * mss) \div incr0) + (mss \div 16))
                         IN  [c EXCEPT !.incr = incr1,
                                       !.congestion_window_size =
                                           IF U32((@ + 1) * mss) <= incr1 THEN @ + 1 ELSE @]
         IN  IF g.congestion_window_size > g.remote_window_size
             THEN [g EXCEPT !.congestion_window_size = g.remote_window_size,
                            !.incr = U32(g.remote_window_size * mss)]
             ELSE g
    ELSE c

RECURSIVE InputLoop(_, _, _, _, _)
\* The parsing loop of input (lines 187-253), the cursor at 0-based offset pos.
\* [conn, pos, err, flag, maxack]
InputLoop(c, buf, pos, flag, maxack) ==
    IF Len(buf) - pos < PROTOCOL_OVERHEAD
    THEN [conn |-> c, pos |-> pos, err |-> "Ok", flag |-> flag, maxack |-> maxack]
    ELSE
    LET session_id   == GetU32(buf, pos)
        command      == GetU8(buf, pos + 4)
        fragment_id  == GetU8(buf, pos + 5)
        window_size  == GetU16(buf, pos + 6)
        timestamp    == GetU32(buf, pos + 8)
        sequence_num == GetU32(buf, pos + 12)
        unacked_sequence_num == GetU32(buf, pos + 16)
        len          == GetU32(buf, pos + 20)
        body         == pos + PROTOCOL_OVERHEAD
        Fail(e)      == [conn |-> c, pos |-> pos, err |-> e, flag |-> flag, maxack |-> maxack]
    IN  IF session_id # c.session_id THEN Fail("InvalidSessionId")
        ELSE IF Len(buf) - body < len THEN Fail("IncompleteMessage")
        ELSE IF command \notin {CMD_PUSH, CMD_ACK, CMD_WASK, CMD_WINS} THEN Fail("InvalidCommand")
        ELSE
        LET c1 == ShrinkBuffer(ParseUnacked([c EXCEPT !.remote_window_size = window_size],
                                            unacked_sequence_num))
        IN  IF command = CMD_ACK
            THEN LET rtt == time_diff(c1.current_time, timestamp)
                     c2  == IF rtt >= 0 THEN UpdateAck(c1, rtt) ELSE c1
                     c3  == ShrinkBuffer(ParseAck(c2, sequence_num))
                     mx  == IF ~flag THEN sequence_num
                            ELSE IF sequence_num > maxack THEN sequence_num ELSE maxack
                 IN  InputLoop(c3, buf, body + PayloadSkip(command, FALSE, len), TRUE, mx)
            ELSE IF command = CMD_PUSH
            THEN IF sequence_num < U32(c1.next_recv_sequence_num + c1.recv_window_size)
                 THEN LET c2 == [c1 EXCEPT !.ack_list = Append(@, <<sequence_num, timestamp>>)]
                      IN  IF sequence_num >= c1.next_recv_sequence_num
                          THEN LET segment ==
                                     [NewSegment(SubSeq(buf, body + 1, body + len)) EXCEPT
                                         !.session_id = session_id,
                                         !.command = command,
                                         !.fragment_id = fragment_id,
                                         !.window_size = window_size,
                                         !.timestamp = timestamp,
                                         !.sequence_num = sequence_num,
                                         !.unacked_sequence_num = unacked_sequence_num]
                               IN  InputLoop(ParseData(c2, segment), buf,
                                             body + PayloadSkip(command, TRUE, len), flag, maxack)
                          ELSE InputLoop(c2, buf, body + PayloadSkip(command, FALSE, len),
                                         flag, maxack)
                 ELSE InputLoop(c1, buf, body + PayloadSkip(command, FALSE, len), flag, maxack)
            ELSE IF command = CMD_WASK
            THEN InputLoop([c1 EXCEPT !.probe = SetBit(@, ASK_TELL)], buf,
                           body + PayloadSkip(command, FALSE, len), flag, maxack)
            ELSE InputLoop(c1, buf, body + PayloadSkip(command, FALSE, len), flag, maxack)

\* input(buffer): [conn, res, n |-> bytes consumed]
Input(c, buf) ==
    IF Len(buf) < PROTOCOL_OVERHEAD
    THEN [conn |-> c, res |-> "BufferTooSmall", n |-> 0]
    ELSE LET r == InputLoop(c, buf, 0, FALSE, 0)
         IN  IF r.err # "Ok"
             THEN [conn |-> r.conn, res |-> r.err, n |-> 0]
             ELSE LET c1 == IF r.flag THEN ParseFastack(r.conn, r.maxack) ELSE r.conn
                  IN  [conn |-> InputGrowWindow(c1, c.unacked_send_sequence_num),
                       res |-> "Ok", n |-> r.pos]

(***************************************************************************)
(* ReliableConnection::flush, update and nodelay.                          *)
(***************************************************************************)
\* num_open_slots_in_recv_queue (lines 791-797)
NumOpenSlotsInRecvQueue_WholeWindow(c) == c.recv_window_size

NumOpenSlotsInRecvQueue(c) ==
    IF Len(c.recv_queue) < c.recv_window_size
    THEN c.recv_window_size - Len(c.recv_queue)
    ELSE 0

FlushProbe_Uncapped(c) ==
    IF c.remote_window_size = 0
    THEN IF c.probe_wait = 0
         THEN [c EXCEPT !.probe_wait = PROBE_INIT,
                        !.next_probe_time = U32(c.current_time + PROBE_INIT)]
         ELSE IF time_diff(c.current_time, c.next_probe_time) >= 0
         THEN [c EXCEPT !.probe_wait = U32(@ + @ \div 2),
                        !.next_probe_time = U32(c.current_time + c.probe_wait + c.probe_wait \div 2),
                        !.probe = SetBit(@, ASK_SEND)]
         ELSE c
    ELSE [c EXCEPT !.next_probe_time = 0, !.probe_wait = 0]

\* The zero-window probe timer of flush (lines 623-644).
FlushProbe(c) ==
    IF c.remote_window_size = 0
    THEN IF c.probe_wait = 0
         THEN [c EXCEPT !.probe_wait = PROBE_INIT,
                        !.next_probe_time = U32(c.current_time + PROBE_INIT)]
         ELSE IF time_diff(c.current_time, c.next_probe_time) >= 0
         THEN LET w0 == IF c.probe_wait < PROBE_INIT THEN PROBE_INIT ELSE c.probe_wait
                  w1 == U32(w0 + w0 \div 2)
                  w  == IF w1 > PROBE_LIMIT THEN PROBE_LIMIT ELSE w1
              IN  [c EXCEPT !.probe_wait = w,
                            !.next_probe_time = U32(c.current_time + w),
                            !.probe = SetBit(@, ASK_SEND)]
         ELSE c
    ELSE [c EXCEPT !.next_probe_time = 0, !.probe_wait = 0]

FlushWindow_CongestionWindowIgnored(c) == Min(c.send_window_size, c.remote_window_size)

\* The effective window of flush (lines 671-674).
FlushWindow(c) ==
    LET w == Min(c.send_window_size, c.remote_window_size)
    IN  IF c.use_congestion_control THEN Min(c.congestion_window_size, w) ELSE w

RECURSIVE FlushAdmit(_, _, _)
\* Send-buffer admission (lines 676-696): move segments from send_queue to
\* send_buffer while next_sn < una + window.
FlushAdmit(c, window, window_size) ==
    IF c.next_send_sequence_num < U32(c.unacked_send_sequence_num + window)
          /\ c.send_queue # <<>>
    THEN LET new_segment == [Head(c.send_queue) EXCEPT
                                !.session_id = c.session_id,
                                !.command = CMD_PUSH,
                                !.window_size = window_size,
                                !.timestamp = c.current_time,
                                !.sequence_num = c.next_send_sequence_num,
                                !.unacked_sequence_num = c.next_recv_sequence_num,
                                !.resend_time = c.current_time,
                                !.rto = c.calculated_rto,
                                !.fastack = 0,
                                !.xmit = 0]
         IN  CHOOSE r \in {FlushAdmit(next, window, window_size) :
                               next \in {[c EXCEPT !.send_queue = Tail(@),
                                                   !.send_buffer = Append(@, new_segment),
                                                   !.next_send_sequence_num = U32(@ + 1)]}} : TRUE
    ELSE c

\* The transmission decision of flush for one in-flight segment (lines 711-741):
\* [seg, need_send, lost, change]
FlushSegment(c, seg, window_size) ==
    LET current == c.current_time
        resent  == IF c.fast_resend > 0 THEN c.fast_resend ELSE U32_MAX
        rto_min == IF c.nodelay = 0 THEN c.calculated_rto \div 8 ELSE 0
        stamp(s) == [s EXCEPT !.timestamp = current,
                              !.window_size = window_size,
                              !.unacked_sequence_num = c.next_recv_sequence_num]
    IN  IF seg.xmit = 0
        THEN [seg |-> stamp([seg EXCEPT !.xmit = U32(@ + 1),
                                        !.rto = c.calculated_rto,
                                        !.resend_time = U32(current + c.calculated_rto + rto_min)]),
              need_send |-> TRUE, lost |-> FALSE, change |-> FALSE]
        ELSE IF time_diff(current, seg.resend_time) >= 0
        THEN LET rto == U32(seg.rto + (IF c.nodelay = 0 THEN c.calculated_rto
                                       ELSE c.calculated_rto \div 4))
             IN  [seg |-> stamp([seg EXCEPT !.xmit = U32(@ + 1),
                                            !.rto = rto,
                                            !.resend_time = U32(current + rto)]),
                  need_send |-> TRUE, lost |-> TRUE, change |-> FALSE]
        ELSE IF seg.fastack >= resent
        THEN [seg |-> stamp([seg EXCEPT !.xmit = U32(@ + 1),
                                        !.fastack = 0,
                                        !.resend_time = U32(current + seg.rto)]),
              need_send |-> TRUE, lost |-> FALSE, change |-> TRUE]
        ELSE [seg |-> seg, need_send |-> FALSE, lost |-> FALSE, change |-> FALSE]

\* The sink of flush: what the code does with the encoding buffer at the four
\* places where it is full and at the end of flush (lines 612-616, 649-653,
\* 660-664, 745-748, 759-762).  Each is `self.payload_buffer.clear()` under a
\* TODO; nothing is written anywhere.  The result is the buffers handed to the
\* output sink.
FlushHandOver(written, held) == written

RECURSIVE FlushPack(_, _, _, _, _)
\* Packing of the encoded segments into payload_buffer, in emission order:
\* before each, `if remaining_mut() + need > mtu { clear }`, then encode; at
\* the end `if remaining_mut() > 0 { clear }`.  held is what the buffer holds
\* since its last clear; [pb, held, written].
FlushPack(pb, held, written, out, mtu) ==
    IF out = <<>>
    THEN IF pb.cap - pb.len > 0
         THEN [pb |-> [pb EXCEPT !.len = 0], held |-> <<>>,
               written |-> FlushHandOver(written, held)]
         ELSE [pb |-> pb, held |-> held, written |-> written]
    ELSE LET bytes   == Head(out)
             need    == Len(bytes)
             cleared == (pb.cap - pb.len) + need > mtu
             pb1     == IF cleared THEN [pb EXCEPT !.len = 0] ELSE pb
             held1   == IF cleared THEN <<>> ELSE held
             wr1     == IF cleared THEN FlushHandOver(written, held) ELSE written
         IN  CHOOSE r \in {FlushPack(pb2, held2, wr2, Tail(out), mtu) :
                               pb2 \in {[pb1 EXCEPT !.len = @ + need]},
                               held2 \in {Append(held1, bytes)},
                               wr2 \in {wr1}} : TRUE

\* The congestion response at the end of flush (lines 764-787).
FlushCongestion(c, window, lost, change) ==
    LET resent == IF c.fast_resend > 0 THEN c.fast_resend ELSE U32_MAX
        c1 == IF change
              THEN LET in_flight == U32(c.next_send_sequence_num - c.unacked_send_sequence_num)
                       ss        == Max(in_flight \div 4, THRESH_MIN)
                       cw        == U32(ss + resent)
                   IN  [c EXCEPT !.ssthresh = ss, !.congestion_window_size = cw,
                                 !.incr = U32(cw * c.max_segment_size)]
              ELSE c
        c2 == IF lost
              THEN [c1 EXCEPT !.ssthresh = Max(window \div 4, THRESH_MIN),
                              !.congestion_window_size = 1,
                              !.incr = c.max_segment_size]
              ELSE c1
    IN  IF c2.congestion_window_size < 1
        THEN [c2 EXCEPT !.congestion_window_size = 1, !.incr = c.max_segment_size]
        ELSE c2

\* flush(): [conn, encoded |-> the segments encoded, in order (each as its
\* bytes), written |-> the buffers handed to the output sink]
Flush(c) ==
    IF ~c.update_called
    THEN [conn |-> c, encoded |-> <<>>, written |-> <<>>]
    ELSE
    LET window_size == NumOpenSlotsInRecvQueue(c) % 65536
        ack(i) == [NewSegment(<<>>) EXCEPT
                      !.session_id = c.session_id,
                      !.command = CMD_ACK,
                      !.window_size = window_size,
                      !.unacked_sequence_num = c.next_recv_sequence_num,
                      !.sequence_num = c.ack_list[i][1],
                      !.timestamp = c.ack_list[i][2]]
        acks   == [i \in 1..Len(c.ack_list) |-> ack(i)]
        \* the scratch segment after the ack loop keeps the last ack's sn and ts
        scratch == IF acks = <<>>
                   THEN [NewSegment(<<>>) EXCEPT
                            !.session_id = c.session_id,
                            !.command = CMD_ACK,
                            !.window_size = window_size,
                            !.unacked_sequence_num = c.next_recv_sequence_num]
                   ELSE acks[Len(acks)]
        \* the transmission, once the probe timer has run (c1), the send queue
        \* is admitted (c2) and each in-flight segment is decided (dec)
        Transmit(c1, c2, dec, window) ==
            LET wask   == IF HasBit(c1.probe, ASK_SEND)
                          THEN << [scratch EXCEPT !.command = CMD_WASK] >> ELSE <<>>
                wins   == IF HasBit(c1.probe, ASK_TELL)
                          THEN << [scratch EXCEPT !.command = CMD_WINS] >> ELSE <<>>
                pushes == SelectSeq(dec, LAMBDA d : d.need_send)
                lost   == \E i \in 1..Len(dec) : dec[i].lost
                change == \E i \in 1..Len(dec) : dec[i].change
                nlost  == Cardinality({i \in 1..Len(dec) : dec[i].lost})
                emit   == acks \o wask \o wins \o [i \in 1..Len(pushes) |-> pushes[i].seg]
                out    == [i \in 1..Len(emit) |-> Encode(emit[i])]
            IN  CHOOSE r \in
                  {[conn |-> FlushCongestion(
                                [c2 EXCEPT !.send_buffer = [i \in 1..Len(dec) |-> dec[i].seg],
                                           !.xmit = U32(@ + nlost),
                                           !.payload_buffer = pack.pb],
                                window, lost, change),
                    encoded |-> out,
                    written |-> pack.written] :
                   pack \in {FlushPack(c.payload_buffer, <<>>, <<>>, out,
                                       c.max_transmission_unit)}} : TRUE
        Decide(c1, c2, window) ==
            CHOOSE r \in {Transmit(c1, c2, dec, window) :
                             dec \in {[i \in 1..Len(c2.send_buffer) |->
                                         FlushSegment(c2, c2.send_buffer[i], window_size)]}} : TRUE
        Admit(c1) ==
            CHOOSE r \in {Decide(c1, c2, FlushWindow(c1)) :
                             c2 \in {FlushAdmit([c1 EXCEPT !.probe = 0], FlushWindow(c1),
                                                window_size)}} : TRUE
    IN  CHOOSE r \in {Admit(c1) : c1 \in {FlushProbe([c EXCEPT !.ack_list = <<>>])}} : TRUE

\* update with the drift test the same in both directions
Update_SymmetricDrift(c, current) ==
    LET c1 == [c EXCEPT !.current_time = current]
        c2 == IF ~c1.update_called
              THEN [c1 EXCEPT !.update_called = TRUE, !.next_flush_time = current]
              ELSE c1
        since0 == time_diff(c2.current_time, c2.next_flush_time)
        drift  == since0 >= FLUSH_DRIFT \/ since0 <= -FLUSH_DRIFT
        c3     == IF drift THEN [c2 EXCEPT !.next_flush_time = current] ELSE c2
        since  == IF drift THEN 0 ELSE since0
    IN  IF since >= 0
        THEN LET nf == U32(c3.next_flush_time + c3.interval)
                 c4 == [c3 EXCEPT !.next_flush_time =
                            IF time_diff(current, nf) >= 0 THEN U32(current + c3.interval) ELSE nf]
             IN  CHOOSE r \in {[conn |-> f.conn, flushed |-> TRUE,
                                 encoded |-> f.encoded, written |-> f.written] :
                                f \in {Flush(c4)}} : TRUE
        ELSE [conn |-> c3, flushed |-> FALSE, encoded |-> <<>>, written |-> <<>>]

\* update(current): [conn, flushed, encoded, written]
Update(c, current) ==
    LET c1 == [c EXCEPT !.current_time = current]
        c2 == IF ~c1.update_called
              THEN [c1 EXCEPT !.update_called = TRUE, !.next_flush_time = current]
              ELSE c1
        since0 == time_diff(c2.current_time, c2.next_flush_time)
        drift  == since0 >= FLUSH_DRIFT \/ since0 < -FLUSH_DRIFT
        c3     == IF drift THEN [c2 EXCEPT !.next_flush_time = current] ELSE c2
        since  == IF drift THEN 0 ELSE since0
    IN  IF since >= 0
        THEN LET nf == U32(c3.next_flush_time + c3.interval)
                 c4 == [c3 EXCEPT !.next_flush_time =
                            IF time_diff(current, nf) >= 0 THEN U32(current + c3.interval) ELSE nf]
             IN  CHOOSE r \in {[conn |-> f.conn, flushed |-> TRUE,
                                 encoded |-> f.encoded, written |-> f.written] :
                                f \in {Flush(c4)}} : TRUE
        ELSE [conn |-> c3, flushed |-> FALSE, encoded |-> <<>>, written |-> <<>>]

\* nodelay(nodelay, interval, resend, use_congestion_control) (lines 448-471)
Nodelay(c, nodelay, interval, resend, use_congestion_control) ==
    LET c1 == IF nodelay >= 0
              THEN [c EXCEPT !.nodelay = nodelay,
                             !.minimum_rto = IF nodelay > 0 THEN RTO_NDL ELSE RTO_MIN]
              ELSE c
        c2 == IF interval >= 0
              THEN [c1 EXCEPT !.interval = IF interval > 5000 THEN 5000
                                           ELSE IF interval < 10 THEN 10 ELSE interval]
              ELSE c1
        c3 == IF resend >= 0 THEN [c2 EXCEPT !.fast_resend = resend] ELSE c2
    IN  [c3 EXCEPT !.use_congestion_control = use_congestion_control]

(***************************************************************************)
(* Records of public calls.                                                *)
(***************************************************************************)
\* The record kept of the last public call.  pre is the engine the call was
\* made on, as it was before the call.
Call(op, arg, res, n, data, pre, encoded, written) ==
    [op |-> op, arg |-> arg, res |-> res, n |-> n, data |-> data, pre |-> pre,
     encoded |-> encoded, written |-> written]

NoCall(c) == Call("new", <<>>, "Ok", 0, <<>>, c, <<>>, <<>>)

\* An application payload of len bytes, its i-th byte (tag + i) mod 256.
Payload(len, tag) == [i \in 1..len |-> (tag + i) % 256]

(***************************************************************************)
(* Endpoint (endpoint.rs), its Config (config.rs), Metrics (metrics.rs)    *)
(* and streams (streams.rs).  A Datagram is a record of its four fields;   *)
(* stream ids count from 0 as in the code.                                 *)
(***************************************************************************)
PacketsTooLargeToSend == 5
DataPointLength == 9

Deliveries == {"Unreliable", "Reliable"}
Orderings == {"None", "Ordered", "Sequenced"}

\* Config::default().  The smoothing factor 0.1 is held as the pair <<1, 10>>.
DefaultConfig ==
    [bandwidth_smoothing_factor |-> <<1, 10>>,
     ordered_streams_size |-> 1,
     sequenced_streams_size |-> 1,
     max_fragments |-> 16,
     fragment_size_bytes |-> 1450]

with_max_fragments(config, max_fragments) ==
    [config EXCEPT !.max_fragments = max_fragments]
with_fragment_size_bytes(config, fragment_size_bytes) ==
    [config EXCEPT !.fragment_size_bytes = fragment_size_bytes]
with_ordered_streams_size(config, ordered_streams_size) ==
    [config EXCEPT !.ordered_streams_size = ordered_streams_size]
with_sequenced_streams_size(config, sequenced_streams_size) ==
    [config EXCEPT !.sequenced_streams_size = sequenced_streams_size]

max_payload_size_bytes(config) == config.max_fragments + config.fragment_size_bytes

NewOrderedStream == [sequence_num |-> 0]
NewSequencedStream == [sequence_num |-> 0]

NewMetrics(bandwidth_smoothing_factor) ==
    [counters |-> [i \in 0..(DataPointLength - 1) |-> 0],
     packet_loss |-> 0,
     sent_bandwidth_kbps |-> 0,
     received_bandwidth_kbps |-> 0,
     acked_bandwidth_kbps |-> 0,
     bandwidth_smoothing_factor |-> bandwidth_smoothing_factor]

increment(metrics, data_point) ==
    [metrics EXCEPT !.counters[data_point] = @ + 1]

get_count(metrics, data_point) == metrics.counters[data_point]

NewEndpoint(config) ==
    [config |-> config,
     ordered_streams |-> [i \in 1..config.ordered_streams_size |-> NewOrderedStream],
     sequenced_streams |-> [i \in 1..config.sequenced_streams_size |-> NewSequencedStream],
     rtt |-> 0,
     metrics |-> NewMetrics(config.bandwidth_smoothing_factor)]

Datagram(stream_id, delivery, ordering, payload) ==
    [stream_id |-> stream_id, delivery |-> delivery, ordering |-> ordering,
     payload |-> payload]

\* The result of a send: the endpoint after it, the result's kind and, for
\* PayloadTooLarge, the two sizes the error carries.
SendResult(e, res, size, max_size) ==
    [endpoint |-> e, res |-> res, size |-> size, max_size |-> max_size]

handle_reliable_send(e, datagram) ==
    IF Len(datagram.payload) > max_payload_size_bytes(e.config)
    THEN SendResult([e EXCEPT !.metrics = increment(e.metrics, PacketsTooLargeToSend)],
                    "PayloadTooLarge", Len(datagram.payload),
                    max_payload_size_bytes(e.config))
    ELSE CASE datagram.ordering = "None" -> SendResult(e, "Ok", 0, 0)
           [] datagram.ordering = "Sequenced" ->
                 IF datagram.stream_id >= Len(e.sequenced_streams)
                 THEN SendResult(e, "InvalidStreamId", 0, 0)
                 ELSE SendResult(e, "Ok", 0, 0)
           [] datagram.ordering = "Ordered" ->
                 IF datagram.stream_id >= Len(e.ordered_streams)
                 THEN SendResult(e, "InvalidStreamId", 0, 0)
                 ELSE SendResult(e, "Ok", 0, 0)

handle_unreliable_send_OrderedAccepted(e, datagram) == SendResult(e, "Ok", 0, 0)

handle_unreliable_send(e, datagram) ==
    CASE datagram.ordering = "None" -> SendResult(e, "Ok", 0, 0)
      [] datagram.ordering = "Sequenced" -> SendResult(e, "Ok", 0, 0)
      [] datagram.ordering = "Ordered" -> SendResult(e, "InvalidConfiguration", 0, 0)

EndpointSend(e, datagram) ==
    CASE datagram.delivery = "Reliable" -> handle_reliable_send(e, datagram)
      [] datagram.delivery = "Unreliable" -> handle_unreliable_send(e, datagram)

(***************************************************************************)
(* SequenceBuffer (sequence_buffer.rs).  Sequence numbers are u16; slots   *)
(* count from 0.  u32::max_value() marks a free slot and is no u16, so     *)
(* U32_MAX stands for it.                                                  *)
(***************************************************************************)
U16_MAX == 65535
U16_SIZE == 65536
HALF_U16_MAX == 32768
DefaultEntry == 0

sequence_num_greater_than_StrictHalf(s1, s2) ==
    \/ (s1 > s2) /\ (s1 - s2 < HALF_U16_MAX)
    \/ (s1 < s2) /\ (s2 - s1 > HALF_U16_MAX)

sequence_num_greater_than(s1, s2) ==
    \/ (s1 > s2) /\ (s1 - s2 <= HALF_U16_MAX)
    \/ (s1 < s2) /\ (s2 - s1 > HALF_U16_MAX)

sequence_num_less_than(s1, s2) == sequence_num_greater_than(s2, s1)

wrapping_add(a, b) == (a + b) % U16_SIZE
wrapping_sub(a, b) == (a - b + U16_SIZE) % U16_SIZE

NewSequenceBuffer(size) ==
    [sequence_num |-> 0,
     sequence_nums |-> [i \in 0..(size - 1) |-> U32_MAX],
     entries |-> [i \in 0..(size - 1) |-> DefaultEntry]]

Capacity(b) == Cardinality(DOMAIN b.entries)

index(b, sequence_num) == sequence_num % Capacity(b)

remove_EntryOnly(b, sequence_num) ==
    [b EXCEPT !.entries[index(b, sequence_num)] = DefaultEntry]

remove(b, sequence_num) ==
    [b EXCEPT !.sequence_nums[index(b, sequence_num)] = U32_MAX,
              !.entries[index(b, sequence_num)] = DefaultEntry]

RECURSIVE RemoveEach(_, _, _)
\* remove((sequence_num % u16::max_value()) as u16) for sequence_num in from..to-1
RemoveEach(b, from, to) ==
    IF from >= to THEN b
    ELSE CHOOSE r \in {RemoveEach(next, from + 1, to) :
                          next \in {remove(b, from % U16_MAX)}} : TRUE

RECURSIVE RemoveSlots(_, _, _)
\* remove(sequence_num) for sequence_num in from..to-1
RemoveSlots(b, from, to) ==
    IF from >= to THEN b
    ELSE CHOOSE r \in {RemoveSlots(next, from + 1, to) : next \in {remove(b, from)}} : TRUE

remove_range(b, start_sequence, end_sequence) ==
    LET end == IF end_sequence < start_sequence
               THEN end_sequence + U16_MAX + 1 ELSE end_sequence
    IN  IF end - start_sequence < Capacity(b)
        THEN RemoveEach(b, start_sequence, end)
        ELSE RemoveSlots(b, 0, Capacity(b))

insert(b, sequence_num, entry) ==
    IF sequence_num_less_than(sequence_num, wrapping_sub(b.sequence_num, Capacity(b) % U16_SIZE))
    THEN [buffer |-> b, res |-> "None"]
    ELSE LET sequence_num_plus_1 == wrapping_add(sequence_num, 1)
             moved == IF sequence_num_greater_than(sequence_num_plus_1, b.sequence_num)
                      THEN [remove_range(b, b.sequence_num, sequence_num)
                               EXCEPT !.sequence_num = sequence_num_plus_1]
                      ELSE b
         IN  [buffer |-> [moved EXCEPT !.sequence_nums[index(b, sequence_num)] = sequence_num,
                                      !.entries[index(b, sequence_num)] = entry],
              res |-> "Some"]

available(b, sequence_num) == b.sequence_nums[index(b, sequence_num)] = U32_MAX

exists(b, sequence_num) == b.sequence_nums[index(b, sequence_num)] = sequence_num

reset(b) ==
    [sequence_num |-> 0,
     sequence_nums |-> [i \in DOMAIN b.sequence_nums |-> U32_MAX],
     entries |-> [i \in DOMAIN b.entries |-> DefaultEntry]]

(***************************************************************************)
(* SpecSend: one engine, the application calling send, set_mtu and         *)
(* set_window_sizes.  The streaming flag is fixed when the engine is made. *)
(***************************************************************************)
\* Payload lengths: empty; below, at and above one segment of the small MTU;
\* 31 and 32 fragments of the small MTU.
SendLengths == {0, 1, 26, 27, 60, 806, 832}
SendMtus == {49, 50}
SendRecvWindows == {2}

InitSend ==
    /\ \E streaming \in BOOLEAN :
          sender = [NewConnection(SessionId) EXCEPT !.in_streaming_mode = streaming]
    /\ receiver = NewConnection(SessionId)
    /\ wire_sr = {} /\ wire_rs = {}
    /\ sent = <<>> /\ delivered = <<>> /\ fed = {}
    /\ last = NoCall(sender)
    /\ endpoint = NewEndpoint(DefaultConfig)
    /\ fragment_buffer = NewSequenceBuffer(BufferSize)
    /\ steps = 0

SendCall(payload) ==
    LET r == Send(sender, payload)
    IN  /\ sender' = r.conn
        /\ sent' = IF r.res = "Ok" THEN Append(sent, payload) ELSE sent
        /\ last' = Call("send", payload, r.res, 0, <<>>, sender, <<>>, <<>>)
        /\ steps' = steps + 1
        /\ UNCHANGED <<receiver, wire_sr, wire_rs, delivered, fed, endpoint, fragment_buffer>>

SetMtuCall(mtu) ==
    LET r == SetMtu(sender, mtu)
    IN  /\ sender' = r.conn
        /\ last' = Call("set_mtu", mtu, r.res, 0, <<>>, sender, <<>>, <<>>)
        /\ steps' = steps + 1
        /\ UNCHANGED <<receiver, wire_sr, wire_rs, sent, delivered, fed, endpoint, fragment_buffer>>

SetWindowSizesCall(send_size, recv_size) ==
    /\ sender' = SetWindowSizes(sender, send_size, recv_size)
    /\ last' = Call("set_window_sizes", <<send_size, recv_size>>, "Ok", 0, <<>>, sender, <<>>, <<>>)
    /\ steps' = steps + 1
    /\ UNCHANGED <<receiver, wire_sr, wire_rs, sent, delivered, fed, endpoint, fragment_buffer>>

NextSend ==
    \/ \E len \in SendLengths : steps < MaxSendSteps /\ SendCall(Payload(len, 16 * Len(sent)))
    \/ \E mtu \in SendMtus : steps < MaxSendSteps /\ SetMtuCall(mtu)
    \/ \E w \in SendRecvWindows :
          steps < MaxSendSteps /\ SetWindowSizesCall(SEND_WINDOW_SIZE, w)

SpecSend == InitSend /\ [][NextSend]_vars

\* the fragments send appended in the last call
Appended == DropFirst(sender.send_queue, Len(last.pre.send_queue))

CeilDiv(a, b) == (a + b - 1) \div b

\* C4: in non-streaming mode a successful send appends exactly
\* n = ceil(len/mss) segments to the tail of send_queue, each at most mss
\* bytes and all but the last exactly mss, their data concatenated is the
\* payload, the i-th (0-based) has fragment_id n-1-i, and the segments that
\* were queued before are unchanged.
C4_SendFragments ==
    (last.op = "send" /\ last.res = "Ok" /\ ~last.pre.in_streaming_mode) =>
        LET mss == last.pre.max_segment_size
            n   == CeilDiv(Len(last.arg), mss)
        IN  /\ Len(sender.send_queue) = Len(last.pre.send_queue) + n
            /\ TakeFirst(sender.send_queue, Len(last.pre.send_queue)) = last.pre.send_queue
            /\ \A i \in 1..Len(Appended) :
                  /\ Len(Appended[i].data) <= mss
                  /\ i < Len(Appended) => Len(Appended[i].data) = mss
                  /\ Appended[i].fragment_id = n - 1 - (i - 1)
            /\ Concat(SegData(Appended)) = last.arg
            /\ [sender EXCEPT !.send_queue = last.pre.send_queue] = last.pre

\* a send of at least three fragments behind segments already queued
C4_Witness ==
    /\ last.op = "send" /\ last.res = "Ok" /\ ~last.pre.in_streaming_mode
    /\ last.pre.send_queue # <<>>
    /\ Len(Appended) >= 3
    /\ Len(Appended[Len(Appended)].data) < last.pre.max_segment_size

\* C6: send fails with FragmentsExceedWindow exactly when the payload needs at
\* least recv_wnd fragments, recv_wnd being the receive window the engine is
\* configured with at the time of the call.
C6_FragmentsAgainstConfiguredWindow ==
    (last.op = "send" /\ last.arg # <<>> /\ ~last.pre.in_streaming_mode) =>
        (last.res = "FragmentsGreaterThanWindowSize"
            <=> CeilDiv(Len(last.arg), last.pre.max_segment_size) >= last.pre.recv_window_size)

RecvSns == 0..2
RecvFragmentIds == {0, 1, 2}
RecvBufferLens == {0, 2, BigBuffer}

\* A PUSH segment as a peer's flush emits it; its payload has sn + 1 bytes.
Push(sn, fragment_id) ==
    [NewSegment(Payload(sn + 1, 16 * sn + fragment_id)) EXCEPT
        !.session_id = SessionId,
        !.command = CMD_PUSH,
        !.fragment_id = fragment_id,
        !.window_size = RECV_WINDOW_SIZE,
        !.sequence_num = sn]

InitRecv ==
    /\ sender = NewConnection(SessionId)
    /\ receiver = NewConnection(SessionId)
    /\ wire_sr = {} /\ wire_rs = {}
    /\ sent = <<>> /\ delivered = <<>> /\ fed = {}
    /\ last = NoCall(receiver)
    /\ endpoint = NewEndpoint(DefaultConfig)
    /\ fragment_buffer = NewSequenceBuffer(BufferSize)
    /\ steps = 0

\* receiver.input(bytes); sns are the sequence numbers of the PUSH segments in it
InputCall(bytes, sns) ==
    LET r == Input(receiver, bytes)
    IN  /\ receiver' = r.conn
        /\ fed' = fed \cup sns
        /\ last' = Call("input", bytes, r.res, r.n, <<>>, receiver, <<>>, <<>>)
        /\ steps' = steps + 1
        /\ UNCHANGED <<sender, wire_sr, wire_rs, sent, delivered, endpoint, fragment_buffer>>

\* receiver.recv(buffer) with a buffer of buffer_len bytes
RecvCall(buffer_len) ==
    LET r == Recv(receiver, buffer_len)
    IN  /\ receiver' = r.conn
        /\ delivered' = IF r.res = "Ok" THEN Append(delivered, r.data) ELSE delivered
        /\ last' = Call("recv", buffer_len, r.res, r.n, r.data, receiver, <<>>, <<>>)
        /\ steps' = steps + 1
        /\ UNCHANGED <<sender, wire_sr, wire_rs, sent, fed, endpoint, fragment_buffer>>

\* receiver.peek_size()
PeekSizeCall ==
    LET r == PeekSize(receiver)
    IN  /\ last' = Call("peek_size", <<>>, r.res, r.n, <<>>, receiver, <<>>, <<>>)
        /\ steps' = steps + 1
        /\ UNCHANGED <<sender, receiver, wire_sr, wire_rs, sent, delivered, fed, endpoint, fragment_buffer>>

InputCount == Len(receiver.ack_list)

NextRecv ==
    \/ \E sn \in RecvSns, f \in RecvFragmentIds :
          /\ steps < MaxRecvSteps
          /\ InputCount < MaxFeeds
          /\ InputCall(Encode(Push(sn, f)), {sn})
    \/ \E len \in RecvBufferLens : steps < MaxRecvSteps /\ RecvCall(len)
    \/ steps < MaxRecvSteps /\ PeekSizeCall

SpecRecv == InitRecv /\ [][NextRecv]_vars

\* The bytes of the next message of a receive queue: the data of its head run,
\* which ends with the first segment whose fragment_id is 0 (the whole queue
\* if there is none).
HeadRunEnd(q) ==
    IF \E i \in 1..Len(q) : q[i].fragment_id = 0
    THEN CHOOSE i \in 1..Len(q) :
            q[i].fragment_id = 0 /\ \A j \in 1..(i - 1) : q[j].fragment_id # 0
    ELSE Len(q)

HeadRunBytes(q) == SumLen([i \in 1..HeadRunEnd(q) |-> q[i].data])

\* whether a receive queue holds the whole of its next message, as far as
\* the head's fragment_id tells
HeadComplete(q) ==
    q # <<>> /\ (Head(q).fragment_id > 0 => Len(q) >= Head(q).fragment_id + 1)

\* C8: recv returns EmptyRecvQueue whenever recv_queue is empty; a recv that
\* fails changes no state; and an empty recv_queue stays empty (so recv keeps
\* returning EmptyRecvQueue) until an input promotes a segment into it.
C8_EmptyRecvQueue ==
    /\ (last.op = "recv" /\ last.pre.recv_queue = <<>>) => last.res = "EmptyRecvQueue"
    /\ (last.op = "recv" /\ last.res = "EmptyRecvQueue") => last.pre.recv_queue = <<>>
    /\ (last.op = "recv" /\ last.res # "Ok") => receiver = last.pre /\ last.n = 0
    /\ (last.op # "new" /\ last.pre.recv_queue = <<>> /\ receiver.recv_queue # <<>>)
          => last.op = "input"

\* a recv has emptied the queue and a further recv returned EmptyRecvQueue
C8_Witness ==
    /\ last.op = "recv" /\ last.res = "EmptyRecvQueue"
    /\ delivered # <<>>
    /\ receiver.recv_queue = <<>>

\* C9: recv with a buffer shorter than the next message returns BufferTooSmall
\* and leaves recv_queue, recv_buffer, rcv_next and probe (the whole engine)
\* unchanged, so that a recv with a large enough buffer then returns that
\* message.
C9_BufferTooSmall ==
    (last.op = "recv" /\ HeadComplete(last.pre.recv_queue)
        /\ last.arg < HeadRunBytes(last.pre.recv_queue)) =>
        /\ last.res = "BufferTooSmall"
        /\ receiver.recv_queue = last.pre.recv_queue
        /\ receiver.recv_buffer = last.pre.recv_buffer
        /\ receiver.next_recv_sequence_num = last.pre.next_recv_sequence_num
        /\ receiver.probe = last.pre.probe
        /\ receiver = last.pre
        /\ LET again == Recv(receiver, BigBuffer)
           IN  /\ again.res = "Ok"
               /\ again.n = HeadRunBytes(last.pre.recv_queue)
               /\ again.data = Concat(SegData(TakeFirst(last.pre.recv_queue,
                                                        HeadRunEnd(last.pre.recv_queue))))

\* a recv refused for its buffer while segments wait in both queues
C9_Witness ==
    /\ last.op = "recv" /\ last.res = "BufferTooSmall"
    /\ last.arg > 0
    /\ Len(receiver.recv_queue) >= 2

ReasmMessages == << Payload(5, 0), Payload(30, 16) >>

\* The peer that sends them: new, set_mtu(50), send of each, update(0).
ReasmPeer ==
    CHOOSE r \in {Update(Send(c1, ReasmMessages[2]).conn, 0) :
                    c1 \in {Send(c0, ReasmMessages[1]).conn :
                             c0 \in {SetMtu(NewConnection(SessionId), MIN_MTU).conn}}} : TRUE

\* the encoded PUSH segments of the peer's flush; the i-th has sn i - 1
ReasmWire == ReasmPeer.encoded

InitReasm ==
    /\ sender = ReasmPeer.conn
    /\ receiver = NewConnection(SessionId)
    /\ wire_sr = {ReasmWire[i] : i \in 1..Len(ReasmWire)}
    /\ wire_rs = {}
    /\ sent = ReasmMessages /\ delivered = <<>> /\ fed = {}
    /\ last = NoCall(receiver)
    /\ endpoint = NewEndpoint(DefaultConfig)
    /\ fragment_buffer = NewSequenceBuffer(BufferSize)
    /\ steps = 0

NextReasm ==
    \/ \E i \in 1..Len(ReasmWire) : steps < MaxReasmSteps /\ InputCall(ReasmWire[i], {i - 1})
    \/ steps < MaxReasmSteps /\ RecvCall(BigBuffer)

SpecReasm == InitReasm /\ [][NextReasm]_vars

Sns(buf) == {buf[i].sequence_num : i \in 1..Len(buf)}

StrictlyIncreasing(buf) ==
    \A i \in 1..(Len(buf) - 1) : buf[i].sequence_num < buf[i + 1].sequence_num

\* C5: the PUSH segments of whole messages, fed in any order and with any
\* repetitions, are staged sorted in recv_buffer until they are contiguous
\* from rcv_next, and the successful recv calls return the messages, each
\* whole and once, in order: once every segment has been fed and recv has
\* nothing more to return, every message has been returned.
C5_ReassemblyRoundTrip ==
    /\ StrictlyIncreasing(receiver.recv_buffer)
    /\ IsPrefix(delivered, ReasmMessages)
    /\ \A sn \in fed : sn < receiver.next_recv_sequence_num \/ sn \in Sns(receiver.recv_buffer)
    /\ (fed = {i - 1 : i \in 1..Len(ReasmWire)} /\ Recv(receiver, BigBuffer).res # "Ok")
          => delivered = ReasmMessages

(***************************************************************************)
(* SpecLink: a sending and a receiving engine of one session.  Each update *)
(* that flushes puts the segments flush encodes on the wire to the peer,   *)
(* at the points of flush where the buffer is due to be written out; the   *)
(* wire keeps every segment ever put on it and delivers any of them at any *)
(* time, so it loses, repeats and reorders.                                *)
(***************************************************************************)
\* An application payload whose bytes read as a PUSH segment of the session.
CraftedPayload ==
    Encode([NewSegment(<<9>>) EXCEPT !.session_id = SessionId, !.command = CMD_PUSH,
                                     !.window_size = RECV_WINDOW_SIZE, !.sequence_num = 1])

LinkPayloads == {<<7>>, CraftedPayload}
LinkTimes == {0, 300}

InitLink ==
    /\ sender = NewConnection(SessionId)
    /\ receiver = NewConnection(SessionId)
    /\ wire_sr = {} /\ wire_rs = {}
    /\ sent = <<>> /\ delivered = <<>> /\ fed = {}
    /\ last = NoCall(sender)
    /\ endpoint = NewEndpoint(DefaultConfig)
    /\ fragment_buffer = NewSequenceBuffer(BufferSize)
    /\ steps = 0

ToSet(q) == {q[i] : i \in 1..Len(q)}

\* sender.update(now), time advancing
SenderUpdateCall(now) ==
    \E r \in {Update(sender, now)} :
        /\ now >= sender.current_time
        /\ sender' = r.conn
        /\ wire_sr' = wire_sr \cup ToSet(r.encoded)
        /\ last' = Call("update", now, "Ok", 0, <<>>, sender, r.encoded, r.written)
        /\ steps' = steps + 1
        /\ UNCHANGED <<receiver, wire_rs, sent, delivered, fed, endpoint, fragment_buffer>>

\* receiver.update(now), time advancing
ReceiverUpdateCall(now) ==
    \E r \in {Update(receiver, now)} :
        /\ now >= receiver.current_time
        /\ receiver' = r.conn
        /\ wire_rs' = wire_rs \cup ToSet(r.encoded)
        /\ last' = Call("update", now, "Ok", 0, <<>>, receiver, r.encoded, r.written)
        /\ steps' = steps + 1
        /\ UNCHANGED <<sender, wire_sr, sent, delivered, fed, endpoint, fragment_buffer>>

\* the wire hands one segment to receiver.input
DeliverToReceiver(bytes) == InputCall(bytes, {})

\* the wire hands one segment to sender.input
DeliverToSender(bytes) ==
    LET r == Input(sender, bytes)
    IN  /\ sender' = r.conn
        /\ last' = Call("input", bytes, r.res, r.n, <<>>, sender, <<>>, <<>>)
        /\ steps' = steps + 1
        /\ UNCHANGED <<receiver, wire_sr, wire_rs, sent, delivered, fed, endpoint, fragment_buffer>>

NextLink ==
    \/ \E payload \in LinkPayloads : steps < MaxLinkSteps /\ SendCall(payload)
    \/ \E now \in LinkTimes : steps < MaxLinkSteps /\ SenderUpdateCall(now)
    \/ \E now \in LinkTimes : steps < MaxLinkSteps /\ ReceiverUpdateCall(now)
    \/ \E bytes \in wire_sr : steps < MaxLinkSteps /\ DeliverToReceiver(bytes)
    \/ \E bytes \in wire_rs : steps < MaxLinkSteps /\ DeliverToSender(bytes)
    \/ steps < MaxLinkSteps /\ RecvCall(BigBuffer)

SpecLink == InitLink /\ [][NextLink]_vars

\* C1: in non-streaming mode the messages the receiver's successful recv
\* calls have returned are a prefix of the payloads the sender's send has
\* accepted, in send order: none reordered, repeated, truncated or merged,
\* and none the sender never accepted.
C1_DeliveredIsPrefixOfSent ==
    ~sender.in_streaming_mode => IsPrefix(delivered, sent)

\* C2: every payload accepted by send is eventually returned by recv.  Each
\* payload of SpecLink is one fragment, the k-th accepted taking sequence
\* number k - 1, and a payload can only still be returned while its segment
\* has reached the receiver or is kept by the sender to be transmitted
\* (again): an accepted payload is never held by neither engine.
C2_AcceptedPayloadStaysDeliverable ==
    \A k \in 1..Len(sent) :
        \/ k - 1 < receiver.next_recv_sequence_num
        \/ k - 1 \in Sns(receiver.recv_buffer)
        \/ k - 1 \in Sns(sender.send_buffer)
        \/ k - 1 >= sender.next_send_sequence_num

\* C3: a flush hands every segment it encodes to the output sink exactly
\* once, in buffers of at most mtu bytes: the buffers handed over, laid end
\* to end, are the encoded segments laid end to end.
C3_FlushHandsEverySegmentToSink ==
    last.op = "update" =>
        /\ Concat(last.written) = Concat(last.encoded)
        /\ \A i \in 1..Len(last.written) :
              Len(last.written[i]) <= last.pre.max_transmission_unit

(***************************************************************************)
(* SpecInput: one engine with three segments in flight at time 100, fed    *)
(* buffers of one or two segments, well-formed and malformed, with recv    *)
(* calls in between.                                                       *)
(***************************************************************************)
\* new, three one-byte sends, update(100): sn 0, 1, 2 in flight
InFlightEngine ==
    CHOOSE r \in {Update(Send(c2, <<3>>).conn, 100).conn :
                    c2 \in {Send(c1, <<2>>).conn :
                             c1 \in {Send(NewConnection(SessionId), <<1>>).conn}}} : TRUE

\* a segment as a peer of the session encodes it
InSeg(command, sn, una, ts, data) ==
    [NewSegment(data) EXCEPT !.session_id = SessionId, !.command = command,
                             !.window_size = RECV_WINDOW_SIZE, !.timestamp = ts,
                             !.sequence_num = sn, !.unacked_sequence_num = una]

\* kind "Ok": a well-formed segment; otherwise the error its defect is to raise
Item(kind, seg, bytes) == [kind |-> kind, seg |-> seg, bytes |-> bytes]
WellFormed(seg) == Item("Ok", seg, Encode(seg))

WellFormedItems ==
    { WellFormed(InSeg(CMD_PUSH, 0, 3, 0, <<11>>)),         \* next expected
      WellFormed(InSeg(CMD_PUSH, 2, 3, 0, <<13>>)),         \* in window, staged
      WellFormed(InSeg(CMD_PUSH, 40, 3, 0, <<15>>)),        \* beyond the window
      WellFormed(InSeg(CMD_PUSH, 0, 3, 0, CraftedPayload)), \* payload reads as PUSH sn 1
      WellFormed(InSeg(CMD_ACK, 1, 0, 60, <<>>)),
      WellFormed(InSeg(CMD_ACK, 1, 3, 60, <<>>)),
      WellFormed(InSeg(CMD_ACK, 2, 0, 100, <<>>)),
      WellFormed(InSeg(CMD_WASK, 0, 3, 0, <<>>)),
      WellFormed(InSeg(CMD_WINS, 0, 3, 0, <<17>>)) }        \* non-PUSH with a payload

MalformedItems ==
    LET seg == InSeg(CMD_PUSH, 1, 3, 0, <<21, 22>>)
    IN  { Item("BufferTooSmall", seg, TakeFirst(Encode(seg), 10)),
          Item("InvalidSessionId", seg, Encode([seg EXCEPT !.session_id = SessionId + 1])),
          Item("IncompleteMessage", seg, TakeFirst(Encode(seg), PROTOCOL_OVERHEAD + 1)),
          Item("InvalidCommand", seg, Encode([seg EXCEPT !.command = CMD_PUSH - 1])) }

InputItems == WellFormedItems \cup MalformedItems
InputBuffers == {<<a>> : a \in InputItems} \cup {<<a, b>> : a \in InputItems, b \in InputItems}

ItemBytes(items) == Concat([i \in 1..Len(items) |-> items[i].bytes])

InitInput ==
    /\ sender = NewConnection(SessionId)
    /\ receiver = InFlightEngine
    /\ wire_sr = {} /\ wire_rs = {}
    /\ sent = <<>> /\ delivered = <<>> /\ fed = {}
    /\ last = NoCall(receiver)
    /\ endpoint = NewEndpoint(DefaultConfig)
    /\ fragment_buffer = NewSequenceBuffer(BufferSize)
    /\ steps = 0

\* receiver.input(buffer), the buffer made of the items' bytes back to back
InputItemsCall(items) ==
    \E r \in {Input(receiver, ItemBytes(items))} :
        /\ receiver' = r.conn
        /\ last' = Call("input", items, r.res, r.n, ItemBytes(items), receiver, <<>>, <<>>)
        /\ steps' = steps + 1
        /\ UNCHANGED <<sender, wire_sr, wire_rs, sent, delivered, fed, endpoint, fragment_buffer>>

NextInput ==
    \/ \E items \in InputBuffers : steps < MaxInputSteps /\ InputItemsCall(items)
    \/ steps < MaxInputSteps /\ RecvCall(BigBuffer)

SpecInput == InitInput /\ [][NextInput]_vars

\* the last call was an input of items (SpecInput)
FedItems == last.op = "input" /\ last.arg # <<>> /\ DOMAIN last.arg[1] = {"kind", "seg", "bytes"}
MalformedAt == {i \in 1..Len(last.arg) : last.arg[i].kind # "Ok"}
FirstMalformed == CHOOSE i \in MalformedAt : \A j \in MalformedAt : i <= j

\* C11: input fails with the error of the first malformed segment of the
\* buffer (fewer than 24 bytes in all, foreign session id, payload longer
\* than what is left, unknown command); that segment changes nothing, and
\* the engine is as the segments before it left it.
C11_MalformedSegmentRejected ==
    (/\ FedItems
     /\ MalformedAt # {}
     /\ last.arg[FirstMalformed].kind = "BufferTooSmall" => Len(last.arg) = 1
     \* a payload is short of its declared length only at the end of the buffer
     /\ last.arg[FirstMalformed].kind = "IncompleteMessage" => FirstMalformed = Len(last.arg))
    => /\ last.res = last.arg[FirstMalformed].kind
       /\ receiver = InputLoop(last.pre, ItemBytes(SubSeq(last.arg, 1, FirstMalformed - 1)),
                               0, FALSE, 0).conn

\* the PUSH segments among the items fed that lie below the window's end
PushesFed == {i \in 1..Len(last.arg) :
                /\ last.arg[i].seg.command = CMD_PUSH
                /\ last.arg[i].seg.sequence_num
                      < last.pre.next_recv_sequence_num + last.pre.recv_window_size}

\* C12: an input of well-formed segments back to back succeeds, returns the
\* number of bytes of the whole buffer, and applies each segment once: one
\* ack_list entry more for each PUSH below the window's end, also when a PUSH
\* is dropped or a segment other than PUSH carries a payload.
C12_InputParsesEverySegment ==
    (FedItems /\ MalformedAt = {})
    => /\ last.res = "Ok"
       /\ last.n = Len(last.data)
       /\ Len(receiver.ack_list) = Len(last.pre.ack_list) + Cardinality(PushesFed)

RecvSide(c) == <<c.recv_buffer, c.recv_queue, c.next_recv_sequence_num>>

InWindowPush(item, c) ==
    /\ item.kind = "Ok" /\ item.seg.command = CMD_PUSH
    /\ item.seg.sequence_num >= c.next_recv_sequence_num
    /\ item.seg.sequence_num < c.next_recv_sequence_num + c.recv_window_size

\* C13: a PUSH segment in the window fed twice, in two calls or in one,
\* leaves recv_buffer, recv_queue and rcv_next as feeding it once, and no
\* sequence number is twice in recv_buffer or in recv_queue.
C13_DuplicatePushSuppressed ==
    /\ Cardinality(Sns(receiver.recv_buffer)) = Len(receiver.recv_buffer)
    /\ Cardinality(Sns(receiver.recv_queue)) = Len(receiver.recv_queue)
    /\ (FedItems /\ Len(last.arg) = 1 /\ InWindowPush(last.arg[1], last.pre))
          => RecvSide(Input(receiver, last.data).conn) = RecvSide(receiver)
    /\ (FedItems /\ Len(last.arg) = 2 /\ last.arg[1] = last.arg[2]
           /\ InWindowPush(last.arg[1], last.pre))
          => RecvSide(receiver) = RecvSide(Input(last.pre, last.arg[1].bytes).conn)

AckSide(c) == <<c.send_buffer, c.unacked_send_sequence_num, c.static_rtt, c.floating_rtt,
                c.calculated_rto, c.congestion_window_size>>

\* C14: the same ACK segment fed a second time changes nothing: send_buffer
\* with its fastack counters, una, srtt, rttvar, rto and cwnd are as after
\* the first.
C14_IdempotentAck ==
    (FedItems /\ Len(last.arg) = 1 /\ last.arg[1].kind = "Ok"
        /\ last.arg[1].seg.command = CMD_ACK)
    => AckSide(Input(receiver, last.data).conn) = AckSide(receiver)

(***************************************************************************)
(* SpecConfig: one engine from new on, configured (set_mtu, nodelay),      *)
(* clocked by update with any time, sent on, and fed ACK segments with any *)
(* timestamp.                                                              *)
(***************************************************************************)
ConfigMtus == {49, 50, 1500}
ConfigNodelays == {0, 1}
ConfigIntervals == {-1, 100}
ConfigTimes == {0, 100, 10000, 10100, 20100}
ConfigAckTimes == {0, 10000}

InitConfig ==
    /\ sender = NewConnection(SessionId)
    /\ receiver = NewConnection(SessionId)
    /\ wire_sr = {} /\ wire_rs = {}
    /\ sent = <<>> /\ delivered = <<>> /\ fed = {}
    /\ last = NoCall(sender)
    /\ endpoint = NewEndpoint(DefaultConfig)
    /\ fragment_buffer = NewSequenceBuffer(BufferSize)
    /\ steps = 0

\* sender.update(now); the record's res tells whether the update flushed
ConfigUpdateCall(now) ==
    \E r \in {Update(sender, now)} :
        /\ sender' = r.conn
        /\ last' = Call("update", now, IF r.flushed THEN "Flushed" ELSE "Idle", 0, <<>>,
                        sender, r.encoded, r.written)
        /\ steps' = steps + 1
        /\ UNCHANGED <<receiver, wire_sr, wire_rs, sent, delivered, fed, endpoint, fragment_buffer>>

\* sender.nodelay(nodelay, interval, -1, false)
NodelayCall(nodelay, interval) ==
    /\ sender' = Nodelay(sender, nodelay, interval, -1, FALSE)
    /\ last' = Call("nodelay", <<nodelay, interval>>, "Ok", 0, <<>>, sender, <<>>, <<>>)
    /\ steps' = steps + 1
    /\ UNCHANGED <<receiver, wire_sr, wire_rs, sent, delivered, fed, endpoint, fragment_buffer>>

\* sender.input of one ACK segment (sn 0, una 0) with timestamp ts
AckCall(ts) == DeliverToSender(Encode(InSeg(CMD_ACK, 0, 0, ts, <<>>)))

NextConfig ==
    \/ \E mtu \in ConfigMtus : steps < MaxConfigSteps /\ SetMtuCall(mtu)
    \/ \E nodelay \in ConfigNodelays, interval \in ConfigIntervals :
          steps < MaxConfigSteps /\ NodelayCall(nodelay, interval)
    \/ \E now \in ConfigTimes : steps < MaxConfigSteps /\ ConfigUpdateCall(now)
    \/ \E ts \in ConfigAckTimes : steps < MaxConfigSteps /\ AckCall(ts)
    \/ steps < MaxConfigSteps /\ SendCall(<<7>>)

SpecConfig == InitConfig /\ [][NextConfig]_vars

\* C15: in every state min_rto <= rto <= 60000, whatever nodelay calls and
\* ACK timestamps came before.
C15_RtoWithinBounds ==
    /\ sender.minimum_rto <= sender.calculated_rto
    /\ sender.calculated_rto <= RTO_MAX

\* C16: in every state, from new on, cwnd is at least one segment.
C16_CongestionWindowAtLeastOne == sender.congestion_window_size >= 1

ArmedAt(pre, now) == IF pre.update_called THEN pre.next_flush_time ELSE now

\* What update(last.arg) is to do when "drifted" tells whether next_flush
\* is too far from now: flush exactly when now has reached next_flush or
\* next_flush has drifted; after a flush next_flush is advanced by interval
\* from where it was (from now after a drift), or is now + interval when
\* that is not in the future; without a flush only current changes.
UpdateAsStated(drifted) ==
    LET pre     == last.pre
        now     == last.arg
        base    == IF drifted THEN now ELSE ArmedAt(pre, now)
        flushes == drifted \/ now - ArmedAt(pre, now) >= 0
    IN  /\ sender.current_time = now
        /\ sender.update_called
        /\ (last.res = "Flushed") <=> flushes
        /\ flushes => sender.next_flush_time =
                         IF now - (base + pre.interval) >= 0 THEN now + pre.interval
                         ELSE base + pre.interval
        /\ ~flushes => sender = [pre EXCEPT !.current_time = now]

\* before the first update nothing has been flushed: nothing is in flight
NoFlushBeforeUpdate ==
    ~sender.update_called => sender.send_buffer = <<>> /\ sender.next_send_sequence_num = 0

\* C20, as the code has it: update(now) sets current = now, the first update
\* arms next_flush = now, no flush happens before it, and an update flushes
\* exactly when now has reached next_flush, or next_flush lies 10 s or more
\* behind now, or more than 10 s ahead of it (at exactly 10 s ahead it is not
\* reset and the update does not flush).
C20_UpdateFlushSchedule ==
    /\ NoFlushBeforeUpdate
    /\ last.op = "update" =>
          UpdateAsStated(\/ last.arg - ArmedAt(last.pre, last.arg) >= FLUSH_DRIFT
                         \/ last.arg - ArmedAt(last.pre, last.arg) < -FLUSH_DRIFT)

\* an update called with next_flush exactly 10 s ahead of now: it does not flush
C20_Witness ==
    /\ last.op = "update" /\ last.pre.update_called
    /\ last.arg - last.pre.next_flush_time = -FLUSH_DRIFT
    /\ last.res = "Idle"

\* C20, as stated: the drift that forces a flush is 10 s or more in either
\* direction.
C20_DriftEitherDirection ==
    /\ NoFlushBeforeUpdate
    /\ last.op = "update" =>
          UpdateAsStated(\/ last.arg - ArmedAt(last.pre, last.arg) >= FLUSH_DRIFT
                         \/ last.arg - ArmedAt(last.pre, last.arg) <= -FLUSH_DRIFT)

(***************************************************************************)
(* SpecDead: one engine whose peer never answers: sends, and updates at    *)
(* times far enough apart for every in-flight segment to time out.         *)
(***************************************************************************)
\* the time between two updates; the retransmission timeout of a segment
\* stays below it for the first DEADLINK transmissions (200 ms more each)
DeadTick == 5000

NextDead ==
    \/ steps < MaxDeadSteps /\ Len(sent) < MaxDeadSends /\ SendCall(<<7>>)
    \/ steps < MaxDeadSteps /\ ConfigUpdateCall(sender.current_time + DeadTick)
    \/ steps < MaxDeadSteps /\ ConfigUpdateCall(sender.current_time)

SpecDead == InitConfig /\ [][NextDead]_vars

\* an in-flight segment transmitted dead_link times or more
LinkWornOut(c) == \E i \in 1..Len(c.send_buffer) : c.send_buffer[i].xmit >= c.dead_link

\* C17: once the transmission count of an in-flight segment has reached
\* dead_link the connection state is dead (no longer 0), and a send made
\* from then on fails.
C17_DeadLink ==
    /\ LinkWornOut(sender) => sender.connection_state # 0
    /\ (last.op = "send" /\ LinkWornOut(last.pre)) => last.res # "Ok"

(***************************************************************************)
(* SpecWrap: the comparisons and additions the engine makes on sequence    *)
(* numbers, at values near 2^32.  A u32 value v is held here as v - 2^31,  *)
(* so that the whole 32-bit range fits the integers of the model checker;  *)
(* the shift keeps the order, so the code's `<` on u32 is `<` here.  A u32 *)
(* addition that overflows panics in a build with overflow checks and      *)
(* wraps in one without: both outcomes are taken.                          *)
(***************************************************************************)
WrapTop == U32_MAX              \* stands for the u32 2^32 - 1
WrapBottom == (-U32_MAX) - 1    \* stands for the u32 0

Builds == {"checked", "wrapping"}

\* a + k in u32 for 0 <= k: whether it overflows, and its wrapped value
Overflows(a, k) == a > WrapTop - k
WrappingAdd(a, k) == IF Overflows(a, k) THEN WrapBottom + (k - (WrapTop - a) - 1) ELSE a + k
\* a - k in u32, wrapped, for 0 <= k
WrappingSub(a, k) == IF a < WrapBottom + k THEN WrapTop - (k - (a - WrapBottom) - 1) ELSE a - k

\* (a - b) as i32: the signed 32-bit difference
SignedDiff(a, b) ==
    IF a >= 0 /\ b < 0 /\ a - WrapTop > b THEN (a - WrapTop) - (b - WrapBottom) - 1
    ELSE IF a < 0 /\ b >= 0 /\ a - WrapBottom < b THEN (a - WrapBottom) + (WrapTop - b) + 1
    ELSE a - b

\* input's and parse_data's window test on a PUSH (lines 229-231, 486-488)
\* and the promotion of the next expected segment (lines 510-512)
WrapPush(rcv_next, recv_wnd, sn, build) ==
    IF Overflows(rcv_next, recv_wnd) /\ build = "checked"
    THEN [res |-> "panic", next |-> rcv_next]
    ELSE IF sn < WrappingAdd(rcv_next, recv_wnd) /\ sn >= rcv_next
    THEN IF sn # rcv_next THEN [res |-> "staged", next |-> rcv_next]
         ELSE IF Overflows(rcv_next, 1) /\ build = "checked"
         THEN [res |-> "panic", next |-> rcv_next]
         ELSE [res |-> "promoted", next |-> WrappingAdd(rcv_next, 1)]
    ELSE [res |-> "dropped", next |-> rcv_next]

\* parse_ack's range test (lines 554-558): whether the ACK of sn is looked up
WrapAck(una, next_sn, sn) ==
    IF sn < una \/ sn >= next_sn THEN "ignored" ELSE "looked up"

\* parse_unacked's test on one in-flight segment (line 572): whether the
\* cumulative ack una stops at the segment
WrapUnacked(una, segment_sn) == IF una <= segment_sn THEN "stops" ELSE "passes"

\* flush's admission test (lines 677-678)
WrapAdmit(next_sn, una, window, build) ==
    IF Overflows(una, window) /\ build = "checked" THEN "panic"
    ELSE IF next_sn < WrappingAdd(una, window) THEN "admits" ELSE "holds back"

\* sequence numbers where a window reaches across 2^32, and one far from it
WrapPoints == {WrapTop - 40, WrapTop - 31, WrapTop - 16, WrapTop, 1000}
WrapOffsets == {-1, 0, 1, 31, 32}
Shift(a, d) == IF d >= 0 THEN WrappingAdd(a, d) ELSE WrappingSub(a, -d)

WrapCall(op, arg, res) == Call(op, arg, res, 0, <<>>, sender, <<>>, <<>>)

WrapPushCall(rcv_next, d, build) ==
    /\ last' = WrapCall("push", <<rcv_next, Shift(rcv_next, d), d>>,
                        WrapPush(rcv_next, RECV_WINDOW_SIZE, Shift(rcv_next, d), build).res)
    /\ steps' = steps + 1
    /\ UNCHANGED <<sender, receiver, wire_sr, wire_rs, sent, delivered, fed, endpoint, fragment_buffer>>

\* una at a, three segments in flight (next_sn three on), an ACK of a + d
WrapAckCall(a, d) ==
    /\ last' = WrapCall("ack", <<a, Shift(a, d), d>>, WrapAck(a, Shift(a, 3), Shift(a, d)))
    /\ steps' = steps + 1
    /\ UNCHANGED <<sender, receiver, wire_sr, wire_rs, sent, delivered, fed, endpoint, fragment_buffer>>

\* an in-flight segment a, a cumulative ack una = a + d
WrapUnackedCall(a, d) ==
    /\ last' = WrapCall("unacked", <<a, Shift(a, d), d>>, WrapUnacked(Shift(a, d), a))
    /\ steps' = steps + 1
    /\ UNCHANGED <<sender, receiver, wire_sr, wire_rs, sent, delivered, fed, endpoint, fragment_buffer>>

\* una at a, next_sn = a + d, a window of SEND_WINDOW_SIZE
WrapAdmitCall(a, d, build) ==
    /\ last' = WrapCall("admit", <<a, Shift(a, d), d>>,
                        WrapAdmit(Shift(a, d), a, SEND_WINDOW_SIZE, build))
    /\ steps' = steps + 1
    /\ UNCHANGED <<sender, receiver, wire_sr, wire_rs, sent, delivered, fed, endpoint, fragment_buffer>>

NextWrap ==
    \/ \E a \in WrapPoints, d \in WrapOffsets, build \in Builds :
          steps < MaxWrapSteps /\ WrapPushCall(a, d, build)
    \/ \E a \in WrapPoints, d \in WrapOffsets : steps < MaxWrapSteps /\ WrapAckCall(a, d)
    \/ \E a \in WrapPoints, d \in WrapOffsets : steps < MaxWrapSteps /\ WrapUnackedCall(a, d)
    \/ \E a \in WrapPoints, d \in WrapOffsets \ {-1}, build \in Builds :
          steps < MaxWrapSteps /\ WrapAdmitCall(a, d, build)

SpecWrap == InitConfig /\ [][NextWrap]_vars

\* C18: near 2^32 every test selects what the signed 32-bit difference
\* selects, as it does far from the wrap, and no addition overflows: a PUSH
\* is stored exactly when 0 <= sn - rcv_next < recv_wnd and promoted when it
\* is the next expected; an ACK is looked up exactly when una <= sn < next_sn;
\* a cumulative ack stops at the first segment not below it; a segment is
\* admitted exactly when next_sn - una < window.
C18_WrapTolerant ==
    LET base == last.arg[1]
        x    == last.arg[2]
    IN  /\ last.res # "panic"
        /\ last.op = "push" =>
              (last.res \in {"staged", "promoted"}
                  <=> SignedDiff(x, base) >= 0 /\ SignedDiff(x, base) < RECV_WINDOW_SIZE)
        /\ last.op = "push" => (last.res = "promoted" <=> x = base)
        /\ last.op = "ack" =>
              (last.res = "looked up"
                  <=> SignedDiff(x, base) >= 0 /\ SignedDiff(x, Shift(base, 3)) < 0)
        /\ last.op = "unacked" => (last.res = "stops" <=> SignedDiff(x, base) <= 0)
        /\ last.op = "admit" =>
              (last.res = "admits" <=> SignedDiff(x, base) < SEND_WINDOW_SIZE)

(***************************************************************************)
(* SpecEndpoint: one Endpoint, made from a configuration, the application  *)
(* calling send with datagrams of every delivery and ordering guarantee.   *)
(***************************************************************************)
EndpointMaxFragments == {1, 2, 3}
EndpointFragmentSizes == {1, 3}
EndpointStreamCounts == {0, 1, 2}
EndpointStreamIds == {0, 1, 2, 255}
EndpointPayloadLengths == {0, 1, 2, 4, 5, 6, 7, 9, 10}

InitEndpoint ==
    /\ \E max_fragments \in EndpointMaxFragments, fragment_size_bytes \in EndpointFragmentSizes,
          ordered \in EndpointStreamCounts, sequenced \in EndpointStreamCounts :
          endpoint = NewEndpoint(
              with_sequenced_streams_size(
                  with_ordered_streams_size(
                      with_fragment_size_bytes(
                          with_max_fragments(DefaultConfig, max_fragments),
                          fragment_size_bytes),
                      ordered),
                  sequenced))
    /\ fragment_buffer = NewSequenceBuffer(BufferSize)
    /\ sender = NewConnection(SessionId)
    /\ receiver = NewConnection(SessionId)
    /\ wire_sr = {} /\ wire_rs = {}
    /\ sent = <<>> /\ delivered = <<>> /\ fed = {}
    /\ last = NoCall(endpoint)
    /\ steps = 0

\* endpoint.send(datagram); n is the maximum a PayloadTooLarge error carries
EndpointSendCall(datagram) ==
    \E r \in {EndpointSend(endpoint, datagram)} :
        /\ endpoint' = r.endpoint
        /\ last' = Call("send", datagram, r.res, r.max_size, <<>>, endpoint, <<>>, <<>>)
        /\ steps' = steps + 1
        /\ UNCHANGED <<sender, receiver, wire_sr, wire_rs, sent, delivered, fed, fragment_buffer>>

NextEndpoint ==
    \E stream_id \in EndpointStreamIds, delivery \in Deliveries, ordering \in Orderings,
       len \in EndpointPayloadLengths :
        /\ steps < MaxEndpointSteps
        /\ EndpointSendCall(Datagram(stream_id, delivery, ordering, Payload(len, 0)))

SpecEndpoint == InitEndpoint /\ [][NextEndpoint]_vars

\* C21: a reliable send returns PayloadTooLarge exactly when the payload is
\* longer than max_fragments x fragment_size_bytes, and then the call adds one
\* to the PacketsTooLargeToSend counter and changes nothing else of the
\* endpoint.
C21_PayloadTooLarge ==
    (last.op = "send" /\ last.arg.delivery = "Reliable") =>
        /\ last.res = "PayloadTooLarge"
              <=> Len(last.arg.payload)
                      > last.pre.config.max_fragments * last.pre.config.fragment_size_bytes
        /\ last.res = "PayloadTooLarge" =>
              endpoint = [last.pre EXCEPT !.metrics.counters[PacketsTooLargeToSend] = @ + 1]

\* The stream count the datagram's ordering selects.
StreamCount(e, ordering) ==
    IF ordering = "Sequenced" THEN e.config.sequenced_streams_size
    ELSE e.config.ordered_streams_size

\* C22: a send to a sequenced or ordered stream returns InvalidStreamId when
\* the stream id is not below the number of streams of that kind, reliable or
\* unreliable, and does not return it when the id is below.  Sends that fail
\* for another stated reason (a reliable payload over the limit, an unreliable
\* ordered datagram) are left out.
C22_InvalidStreamId ==
    (/\ last.op = "send"
     /\ last.arg.ordering \in {"Sequenced", "Ordered"}
     /\ ~(last.arg.delivery = "Unreliable" /\ last.arg.ordering = "Ordered")
     /\ ~(last.arg.delivery = "Reliable"
            /\ Len(last.arg.payload) > max_payload_size_bytes(last.pre.config)))
    => (last.res = "InvalidStreamId"
            <=> last.arg.stream_id >= StreamCount(last.pre, last.arg.ordering))

\* C23: a send of an Unreliable and Ordered datagram returns
\* InvalidConfiguration, whatever its stream id and payload, and leaves the
\* endpoint as it was.
C23_UnreliableOrderedRejected ==
    (last.op = "send" /\ last.arg.delivery = "Unreliable" /\ last.arg.ordering = "Ordered") =>
        /\ last.res = "InvalidConfiguration"
        /\ endpoint = last.pre

\* an unreliable ordered datagram to an existing stream, with a payload, sent
\* to an endpoint that has already counted a rejected payload
C23_Witness ==
    /\ last.op = "send" /\ last.arg.delivery = "Unreliable" /\ last.arg.ordering = "Ordered"
    /\ last.arg.stream_id < endpoint.config.ordered_streams_size
    /\ Len(last.arg.payload) > 0
    /\ get_count(endpoint.metrics, PacketsTooLargeToSend) = 1
    /\ last.res = "InvalidConfiguration"

(***************************************************************************)
(* SpecCompare: the 16-bit sequence comparator applied to pairs around 0,  *)
(* the half of the space and the wrap.                                     *)
(***************************************************************************)
ComparePoints == {0, 1, 2, 100, 32767, 32768, 32769, 32770, 40000, 65533, 65534, 65535}
CompareOffsets == {0, 1, 2, 100, 32767, 32768, 32769, 65534, 65535}

\* How the comparator orders a pair: by sequence_num_greater_than both ways.
Compare(a, b) ==
    CASE sequence_num_greater_than(a, b) /\ sequence_num_greater_than(b, a) -> "both"
      [] sequence_num_greater_than(a, b) -> "greater"
      [] sequence_num_greater_than(b, a) -> "less"
      [] OTHER -> "neither"

CompareCall(a, b) ==
    /\ last' = Call("compare", <<a, b>>, Compare(a, b), 0, <<>>, fragment_buffer, <<>>, <<>>)
    /\ steps' = steps + 1
    /\ UNCHANGED <<sender, receiver, wire_sr, wire_rs, sent, delivered, fed, endpoint,
                   fragment_buffer>>

NextCompare ==
    \E a \in ComparePoints, d \in CompareOffsets :
        steps < MaxCompareSteps /\ CompareCall(a, wrapping_add(a, d))

SpecCompare == InitConfig /\ [][NextCompare]_vars

\* C24: of greater(a, b), greater(b, a) and a = b exactly one holds; the
\* successor of a is greater than a, also from 65535 to 0; and exactly half
\* the space apart the larger value is the greater (greater(0, 32768) is
\* false), one more and the smaller is (greater(0, 32769) is true).
C24_CircularStrictOrder ==
    last.op = "compare" =>
        LET a == last.arg[1]
            b == last.arg[2]
        IN  /\ last.res # "both"
            /\ last.res = "neither" <=> a = b
            /\ a = (b + 1) % U16_SIZE => last.res = "greater"
            /\ (a = 0 /\ b = HALF_U16_MAX) => last.res = "less"
            /\ (a = 0 /\ b = HALF_U16_MAX + 1) => last.res = "greater"

\* 0 compared with 65535: the successor across the wrap
C24_Witness ==
    /\ last.op = "compare" /\ last.arg = <<0, U16_MAX>> /\ last.res = "greater"

(***************************************************************************)
(* SpecBuffer: one SequenceBuffer of BufferSize slots, the owner calling   *)
(* insert, remove and reset with sequence numbers around 0 and the wrap.   *)
(***************************************************************************)
\* From head 0 an insert is taken up to 32763, from there up to 65528; 32767
\* and 65529 are the first refused ones.  65531 and 65535 share the last slot
\* of a buffer of BufferSize slots.
BufferSns == {0, 1, 5, 32763, 32767, 65528, 65529, 65531, 65533, 65534, 65535}
BufferEntries == {1}

InsertCall(sequence_num, entry) ==
    \E r \in {insert(fragment_buffer, sequence_num, entry)} :
        /\ fragment_buffer' = r.buffer
        /\ last' = Call("insert", sequence_num, r.res, entry, <<>>, fragment_buffer, <<>>, <<>>)
        /\ steps' = steps + 1
        /\ UNCHANGED <<sender, receiver, wire_sr, wire_rs, sent, delivered, fed, endpoint>>

RemoveCall(sequence_num) ==
    /\ fragment_buffer' = remove(fragment_buffer, sequence_num)
    /\ last' = Call("remove", sequence_num, "Ok", 0, <<>>, fragment_buffer, <<>>, <<>>)
    /\ steps' = steps + 1
    /\ UNCHANGED <<sender, receiver, wire_sr, wire_rs, sent, delivered, fed, endpoint>>

ResetCall ==
    /\ fragment_buffer' = reset(fragment_buffer)
    /\ last' = Call("reset", 0, "Ok", 0, <<>>, fragment_buffer, <<>>, <<>>)
    /\ steps' = steps + 1
    /\ UNCHANGED <<sender, receiver, wire_sr, wire_rs, sent, delivered, fed, endpoint>>

NextBuffer ==
    \/ \E sequence_num \in BufferSns, entry \in BufferEntries :
          steps < MaxBufferSteps /\ InsertCall(sequence_num, entry)
    \/ \E sequence_num \in BufferSns : steps < MaxBufferSteps /\ RemoveCall(sequence_num)
    \/ steps < MaxBufferSteps /\ ResetCall

SpecBuffer == InitConfig /\ [][NextBuffer]_vars

\* The sequence numbers a slot of the buffer holds.
StoredSns(b) == {b.sequence_nums[i] : i \in DOMAIN b.sequence_nums} \ {U32_MAX}

\* The last call stored s: a successful insert(s).
StoredByLast(s) == last.op = "insert" /\ last.res = "Some" /\ last.arg = s

\* The last call left what the slot of s held: it was no remove or reset of
\* that slot and no successful insert into it.
SlotKeptByLast(s) ==
    /\ last.op # "reset"
    /\ last.op = "remove" => index(last.pre, last.arg) # index(last.pre, s)
    /\ (last.op = "insert" /\ last.res = "Some") => index(last.pre, last.arg) # index(last.pre, s)

\* C25: after a successful insert(sn, v), exists(sn) and not available(sn);
\* after remove(sn), not exists(sn) and available(sn); insert returns None
\* exactly when sn is older than head - N by the comparator, and then the
\* buffer is as before; and exists(s) holds only if the last call stored s,
\* or exists(s) held before the last call and the call left the slot of s
\* alone (so s is the number stored last in its slot and not removed since).
C25_SequenceBuffer ==
    /\ (last.op = "insert" /\ last.res = "Some") =>
          exists(fragment_buffer, last.arg) /\ ~available(fragment_buffer, last.arg)
    /\ last.op = "remove" =>
          ~exists(fragment_buffer, last.arg) /\ available(fragment_buffer, last.arg)
    /\ last.op = "insert" =>
          /\ last.res = "None"
                <=> sequence_num_less_than(
                        last.arg, wrapping_sub(last.pre.sequence_num, Capacity(last.pre)))
          /\ last.res = "None" => fragment_buffer = last.pre
    /\ last.op \in {"insert", "remove", "reset"} =>
          \A s \in BufferSns \cup StoredSns(fragment_buffer) :
              exists(fragment_buffer, s) =>
                  \/ StoredByLast(s)
                  \/ exists(last.pre, s) /\ SlotKeptByLast(s)

\* an insert across the wrap into a slot that held another number, while a
\* number stored earlier in another slot is still there
C25_Witness ==
    /\ last.op = "insert" /\ last.res = "Some"
    /\ last.pre.sequence_nums[index(last.pre, last.arg)] \notin {U32_MAX, last.arg}
    /\ fragment_buffer.sequence_num < last.pre.sequence_num
    /\ \E s \in StoredSns(fragment_buffer) : s # last.arg /\ exists(last.pre, s)

(***************************************************************************)
(* Queue discipline of the engine: what input and recv may take out of     *)
(* send_buffer and recv_buffer (SpecInput, SpecLink).                      *)
(***************************************************************************)
\* sn is acknowledged by the items of an input: the sequence number of an ACK
\* among them, or below the cumulative ack one of them carries
AckedBy(items, sn) ==
    \E i \in 1..Len(items) :
        \/ items[i].seg.command = CMD_ACK /\ items[i].seg.sequence_num = sn
        \/ sn < items[i].seg.unacked_sequence_num

\* C26: an input takes out of send_buffer only segments its buffer
\* acknowledges, selectively (the sn of an ACK segment) or cumulatively (below
\* the una of a segment); every other segment in flight stays.
C26_RemovedOnlyWhenAcked ==
    FedItems =>
        \A sn \in Sns(last.pre.send_buffer) \ Sns(receiver.send_buffer) : AckedBy(last.arg, sn)

\* The segments of q from position from on.
SegmentsFrom(q, from) == {q[i] : i \in from..Len(q)}

\* C27: a successful recv drops no staged segment: every segment of
\* recv_buffer before the call is in recv_buffer after it or has been put at
\* the tail of recv_queue, and those put there are the run of consecutive
\* sequence numbers from rcv_next on.
C27_RecvKeepsStagedSegments ==
    (last.op = "recv" /\ last.res = "Ok") =>
        LET before == SegmentsFrom(last.pre.recv_buffer, 1)
            after  == SegmentsFrom(receiver.recv_buffer, 1)
            moved  == before \ after
            k      == Cardinality(moved)
        IN  /\ k <= Len(receiver.recv_queue)
            /\ moved = SegmentsFrom(receiver.recv_queue, Len(receiver.recv_queue) - k + 1)
            /\ {seg.sequence_num : seg \in moved}
                  = last.pre.next_recv_sequence_num .. (last.pre.next_recv_sequence_num + k - 1)

\* C30: an input of one PUSH segment whose sn is outside
\* [rcv_next, rcv_next + recv_wnd), beyond it or below it, adds nothing to
\* ack_list and leaves recv_buffer, recv_queue and rcv_next; one whose sn is
\* inside adds exactly one entry, (sn, timestamp), to ack_list.
C30_PushOutsideWindowDropped ==
    (FedItems /\ Len(last.arg) = 1 /\ last.arg[1].kind = "Ok"
        /\ last.arg[1].seg.command = CMD_PUSH)
    => LET seg == last.arg[1].seg
       IN  IF InWindowPush(last.arg[1], last.pre)
           THEN receiver.ack_list
                    = Append(last.pre.ack_list, <<seg.sequence_num, seg.timestamp>>)
           ELSE /\ receiver.ack_list = last.pre.ack_list
                /\ RecvSide(receiver) = RecvSide(last.pre)

\* The send side of an engine is in order: send_buffer strictly increasing by
\* sn, every sn in it from una up to below next_sn, and una the sn of its
\* first segment, or next_sn when it is empty.
SendSideInOrder(c) ==
    /\ StrictlyIncreasing(c.send_buffer)
    /\ \A sn \in Sns(c.send_buffer) :
          c.unacked_send_sequence_num <= sn /\ sn < c.next_send_sequence_num
    /\ c.unacked_send_sequence_num
          = IF c.send_buffer = <<>> THEN c.next_send_sequence_num
            ELSE c.send_buffer[1].sequence_num

\* C28: between public calls the send side of each engine is in order.
C28_SendBufferInOrder == SendSideInOrder(sender) /\ SendSideInOrder(receiver)

\* an input has taken the two segments in flight out of the sender's
\* send_buffer
C28_Witness ==
    /\ last.op = "input" /\ last.res = "Ok"
    /\ Len(last.pre.send_buffer) = 2
    /\ sender.send_buffer = <<>>
    /\ sender.unacked_send_sequence_num = 2

(***************************************************************************)
(* SpecWindow: one engine from new on, fed single PUSH segments, read with *)
(* recv, its window sizes set by the application.                          *)
(***************************************************************************)
WindowSns == {0, 1, 2, 3, 5}
WindowSizes == {2, 4, RECV_WINDOW_SIZE}

\* receiver.set_window_sizes(send_size, recv_size)
ReceiverSetWindowSizesCall(send_size, recv_size) ==
    /\ receiver' = SetWindowSizes(receiver, send_size, recv_size)
    /\ last' = Call("set_window_sizes", <<send_size, recv_size>>, "Ok", 0, <<>>, receiver,
                    <<>>, <<>>)
    /\ steps' = steps + 1
    /\ UNCHANGED <<sender, wire_sr, wire_rs, sent, delivered, fed, endpoint, fragment_buffer>>

NextWindow ==
    \/ \E sn \in WindowSns :
          /\ steps < MaxWindowSteps
          /\ InputCall(Encode(InSeg(CMD_PUSH, sn, 0, 0, <<sn>>)), {sn})
    \/ steps < MaxWindowSteps /\ RecvCall(BigBuffer)
    \/ \E recv_size \in WindowSizes :
          steps < MaxWindowSteps /\ ReceiverSetWindowSizesCall(SEND_WINDOW_SIZE, recv_size)

SpecWindow == InitRecv /\ [][NextWindow]_vars

\* C29: between public calls recv_buffer is strictly increasing by sn and
\* every sn in it is in [rcv_next, rcv_next + recv_wnd).
C29_RecvBufferInWindow ==
    /\ StrictlyIncreasing(receiver.recv_buffer)
    /\ \A sn \in Sns(receiver.recv_buffer) :
          /\ receiver.next_recv_sequence_num <= sn
          /\ sn < receiver.next_recv_sequence_num + receiver.recv_window_size

(***************************************************************************)
(* SpecAck: one engine from new on as the receiving side: fed single PUSH  *)
(* and WASK segments, read with recv, clocked by update, its receive       *)
(* window set by the application.  wire_rs collects what its flushes       *)
(* encode.                                                                 *)
(***************************************************************************)
AckSns == {0, 1, 2, 5, 40}
AckTimestamps == {0, 50}
AckTimes == {0, 100, 300}
AckWindows == {0, 1, 2}

\* receiver.update(now), time advancing; res tells whether the update flushed
AckUpdateCall(now) ==
    \E r \in {Update(receiver, now)} :
        /\ now >= receiver.current_time
        /\ receiver' = r.conn
        /\ wire_rs' = wire_rs \cup ToSet(r.encoded)
        /\ last' = Call("update", now, IF r.flushed THEN "Flushed" ELSE "Idle", 0, <<>>,
                        receiver, r.encoded, r.written)
        /\ steps' = steps + 1
        /\ UNCHANGED <<sender, wire_sr, sent, delivered, fed, endpoint, fragment_buffer>>

NextAck ==
    \/ \E sn \in AckSns, ts \in AckTimestamps :
          /\ steps < MaxAckSteps
          /\ InputCall(Encode(InSeg(CMD_PUSH, sn, 0, ts, <<sn>>)), {sn})
    \/ steps < MaxAckSteps /\ InputCall(Encode(InSeg(CMD_WASK, 0, 0, 0, <<>>)), {})
    \/ steps < MaxAckSteps /\ RecvCall(BigBuffer)
    \/ \E now \in AckTimes : steps < MaxAckSteps /\ AckUpdateCall(now)
    \/ \E recv_size \in AckWindows :
          steps < MaxAckSteps /\ ReceiverSetWindowSizesCall(SEND_WINDOW_SIZE, recv_size)

SpecAck == InitRecv /\ [][NextAck]_vars

\* The header fields of an encoded segment.
DecodeHeader(bytes) ==
    [command |-> GetU8(bytes, 4), window_size |-> GetU16(bytes, 6),
     timestamp |-> GetU32(bytes, 8), sequence_num |-> GetU32(bytes, 12),
     unacked_sequence_num |-> GetU32(bytes, 16), len |-> GetU32(bytes, 20)]

\* The headers of the segments the last call encoded, in order, and those of
\* one command among them.
Emitted == [i \in 1..Len(last.encoded) |-> DecodeHeader(last.encoded[i])]
EmittedOf(command) == SelectSeq(Emitted, LAMBDA h : h.command = command)

\* The last call was an update that flushed.
Flushed == last.op = "update" /\ last.res = "Flushed"

\* recv_wnd - |recv_queue|, 0 when that is negative
OpenSlots(c) ==
    IF c.recv_window_size - Len(c.recv_queue) > 0
    THEN c.recv_window_size - Len(c.recv_queue) ELSE 0

\* C31: a flush encodes one ACK segment for each entry of ack_list, in order,
\* with the entry's sn and timestamp, una = rcv_next and window_size = the
\* open slots of recv_queue, and leaves ack_list empty.
C31_AcksFlushedOnce ==
    Flushed =>
        /\ Len(EmittedOf(CMD_ACK)) = Len(last.pre.ack_list)
        /\ \A i \in 1..Len(last.pre.ack_list) :
              /\ EmittedOf(CMD_ACK)[i].sequence_num = last.pre.ack_list[i][1]
              /\ EmittedOf(CMD_ACK)[i].timestamp = last.pre.ack_list[i][2]
              /\ EmittedOf(CMD_ACK)[i].unacked_sequence_num = last.pre.next_recv_sequence_num
              /\ EmittedOf(CMD_ACK)[i].window_size = OpenSlots(last.pre)
        /\ receiver.ack_list = <<>>

\* a flush with two entries in ack_list, one segment promoted and still in
\* recv_queue
C31_Witness ==
    /\ Flushed
    /\ Len(last.pre.ack_list) = 2
    /\ last.pre.ack_list[1] # last.pre.ack_list[2]
    /\ last.pre.next_recv_sequence_num = 1
    /\ Len(last.pre.recv_queue) = 1

\* C37: an input of a WASK segment sets ASK_TELL; a flush with ASK_TELL set
\* encodes exactly one WINS segment, its window_size the open slots of
\* recv_queue, a flush without it none; and after every flush probe is 0.
C37_WindowReply ==
    /\ (last.op = "input" /\ last.res = "Ok" /\ GetU8(last.arg, 4) = CMD_WASK) =>
          (receiver.probe \div ASK_TELL) % 2 = 1
    /\ Flushed =>
          /\ Len(EmittedOf(CMD_WINS)) = (last.pre.probe \div ASK_TELL) % 2
          /\ \A i \in 1..Len(EmittedOf(CMD_WINS)) :
                EmittedOf(CMD_WINS)[i].window_size = OpenSlots(last.pre)
          /\ receiver.probe = 0

\* a flush answers a WASK that came when a segment was waiting in recv_queue
C37_Witness ==
    /\ Flushed
    /\ (last.pre.probe \div ASK_TELL) % 2 = 1
    /\ Len(last.pre.recv_queue) = 1
    /\ Len(EmittedOf(CMD_WINS)) = 1

\* The sequence numbers acknowledged so far: queued in ack_list or encoded as
\* an ACK segment by a flush.
AckedSns ==
    {receiver.ack_list[i][1] : i \in 1..Len(receiver.ack_list)}
        \cup {DecodeHeader(bytes).sequence_num :
                 bytes \in {b \in wire_rs : DecodeHeader(b).command = CMD_ACK}}

\* C39: every sequence number acknowledged is promoted (below rcv_next) or
\* is in recv_buffer.
C39_AckedSegmentsAreHeld ==
    \A sn \in AckedSns :
        sn < receiver.next_recv_sequence_num \/ sn \in Sns(receiver.recv_buffer)

\* C40: recv_queue holds at most recv_wnd segments, and every segment a flush
\* encodes advertises recv_wnd - |recv_queue|, 0 when that is not positive.
C40_RecvQueueWithinWindow ==
    /\ Len(receiver.recv_queue) <= receiver.recv_window_size
    /\ Flushed => \A i \in 1..Len(Emitted) : Emitted[i].window_size = OpenSlots(last.pre)

(***************************************************************************)
(* The window of the sequence buffer (SpecBuffer).                         *)
(***************************************************************************)
\* s is one of the N sequence numbers before head, N the number of slots.
WithinWindow(b, s) == \E k \in 1..Capacity(b) : s = wrapping_sub(b.sequence_num, k)

\* C38: every sequence number s for which exists(s) is true lies within the N
\* sequence numbers before head in the circular 16-bit order; an insert that
\* advances head clears every slot of the gap, also across the wrap from
\* 65535 to 0.
C38_StoredWithinWindow ==
    \A s \in StoredSns(fragment_buffer) :
        exists(fragment_buffer, s) => WithinWindow(fragment_buffer, s)

(***************************************************************************)
(* SpecFlight: a sender with four one-byte messages queued, configured by  *)
(* nodelay before the first update; updates at rising times, ACK segments  *)
(* from the peer and set_window_sizes.                                     *)
(***************************************************************************)
FlightNodelays == {0, 1}
FlightResends == {0, 2}
FlightTimes == {0, 100, 300, 700}
FlightAckSns == {1, 2, 3}
FlightUnas == {0, 2}
FlightWindows == {1, RECV_WINDOW_SIZE}
FlightSendWindows == {2}

\* new(SessionId); nodelay(nodelay, -1, resend, use_congestion_control);
\* send of <<1>>, <<2>>, <<3>>, <<4>>
QueuedEngine(nodelay, resend, use_congestion_control) ==
    CHOOSE r \in
        {Send(c3, <<4>>).conn :
            c3 \in {Send(c2, <<3>>).conn :
                c2 \in {Send(c1, <<2>>).conn :
                    c1 \in {Send(c0, <<1>>).conn :
                        c0 \in {Nodelay(NewConnection(SessionId), nodelay, -1, resend,
                                        use_congestion_control)}}}}} : TRUE

InitFlight ==
    /\ sender \in {QueuedEngine(nodelay, resend, use_congestion_control) :
                      nodelay \in FlightNodelays, resend \in FlightResends,
                      use_congestion_control \in BOOLEAN}
    /\ receiver = NewConnection(SessionId)
    /\ wire_sr = {} /\ wire_rs = {}
    /\ sent = <<>> /\ delivered = <<>> /\ fed = {}
    /\ last = NoCall(sender)
    /\ endpoint = NewEndpoint(DefaultConfig)
    /\ fragment_buffer = NewSequenceBuffer(BufferSize)
    /\ steps = 0

\* sender.update(now), time not running backwards
FlightUpdateCall(now) == now >= sender.current_time /\ ConfigUpdateCall(now)

\* sender.input of one ACK segment for sequence_num, the peer expecting
\* unacked_sequence_num next and advertising window_size
FlightAckCall(sequence_num, unacked_sequence_num, window_size) ==
    DeliverToSender(Encode([InSeg(CMD_ACK, sequence_num, unacked_sequence_num, 0, <<>>)
                               EXCEPT !.window_size = window_size]))

NextFlight ==
    \/ \E now \in FlightTimes : steps < MaxFlightSteps /\ FlightUpdateCall(now)
    \/ \E sequence_num \in FlightAckSns, unacked_sequence_num \in FlightUnas,
          window_size \in FlightWindows :
          steps < MaxFlightSteps
             /\ FlightAckCall(sequence_num, unacked_sequence_num, window_size)
    \/ \E send_size \in FlightSendWindows :
          steps < MaxFlightSteps /\ SetWindowSizesCall(send_size, RECV_WINDOW_SIZE)

SpecFlight == InitFlight /\ [][NextFlight]_vars

\* min(send_wnd, remote_wnd), and cwnd too when congestion control is enabled
EffectiveWindow(c) ==
    LET w == IF c.send_window_size < c.remote_window_size
             THEN c.send_window_size ELSE c.remote_window_size
    IN  IF c.use_congestion_control /\ c.congestion_window_size < w
        THEN c.congestion_window_size ELSE w

\* The number of segments a flush of engine c admits: those of send_queue for
\* which next_sn < una + effective_wnd still holds.
Admitted(c) ==
    LET room == c.unacked_send_sequence_num + EffectiveWindow(c) - c.next_send_sequence_num
    IN  IF room <= 0 THEN 0
        ELSE IF Len(c.send_queue) < room THEN Len(c.send_queue) ELSE room

\* C32: a flush moves segments from the head of send_queue to the tail of
\* send_buffer in FIFO order with consecutive sequence numbers from next_sn,
\* only while next_sn < una + effective_wnd (min(send_wnd, remote_wnd), and
\* cwnd when congestion control is enabled), none when next_sn - una >=
\* effective_wnd; each admitted segment is transmitted in that flush, so it is
\* left with xmit = 1 and fastack = 0 and a PUSH with its sn is encoded.
C32_SendBufferAdmission ==
    Flushed =>
        LET pre == last.pre
            k   == Admitted(pre)
            old == Len(pre.send_buffer)
        IN  /\ sender.send_queue = DropFirst(pre.send_queue, k)
            /\ Len(sender.send_buffer) = old + k
            /\ sender.next_send_sequence_num = pre.next_send_sequence_num + k
            /\ \A i \in 1..k :
                  /\ sender.send_buffer[old + i].data = pre.send_queue[i].data
                  /\ sender.send_buffer[old + i].sequence_num
                        = pre.next_send_sequence_num + i - 1
                  /\ sender.send_buffer[old + i].xmit = 1
                  /\ sender.send_buffer[old + i].fastack = 0
                  /\ \E j \in 1..Len(last.encoded) :
                        /\ Emitted[j].command = CMD_PUSH
                        /\ Emitted[j].sequence_num = pre.next_send_sequence_num + i - 1
                        /\ DropFirst(last.encoded[j], PROTOCOL_OVERHEAD) = pre.send_queue[i].data

\* a flush under congestion control that admits some of the queue and holds
\* the rest back because of cwnd
C32_Witness ==
    /\ Flushed
    /\ last.pre.use_congestion_control
    /\ last.pre.congestion_window_size < last.pre.send_window_size
    /\ last.pre.congestion_window_size < last.pre.remote_window_size
    /\ Admitted(last.pre) > 0
    /\ sender.send_queue # <<>>
    /\ Len(sender.send_queue) < Len(last.pre.send_queue)

\* The last call encoded a PUSH segment with sequence number sn.
PushEmitted(sn) ==
    \E j \in 1..Len(last.encoded) :
        Emitted[j].command = CMD_PUSH /\ Emitted[j].sequence_num = sn

\* The fast-retransmit threshold of engine c applies to segment seg.
FastackReached(c, seg) == c.fast_resend > 0 /\ seg.fastack >= c.fast_resend

\* C33: at a flush at time now, an in-flight segment with xmit >= 1 and
\* now >= resend_time is sent again, its xmit grows by 1, its rto becomes
\* rto + rto when nodelay = 0 and rto + (rto >> 1) when nodelay > 0, and its
\* resend_time becomes now + the new rto; a transmitted segment that is not
\* due and whose fastack is below the threshold is not sent.
C33_RtoRetransmission ==
    Flushed =>
        \A i \in 1..Len(last.pre.send_buffer) :
            LET seg == last.pre.send_buffer[i]
                now == last.arg
                rto == IF last.pre.nodelay = 0 THEN seg.rto + seg.rto
                       ELSE seg.rto + seg.rto \div 2
            IN  seg.xmit >= 1 =>
                  IF now >= seg.resend_time
                  THEN /\ PushEmitted(seg.sequence_num)
                       /\ sender.send_buffer[i].xmit = seg.xmit + 1
                       /\ sender.send_buffer[i].rto = rto
                       /\ sender.send_buffer[i].resend_time = now + rto
                  ELSE ~FastackReached(last.pre, seg) =>
                          /\ ~PushEmitted(seg.sequence_num)
                          /\ sender.send_buffer[i] = seg

\* The last call was an input of ACK segments that succeeded; in SpecFlight
\* an input carries one ACK, so its sn is the largest acked sn of the call.
AckInput == last.op = "input" /\ last.res = "Ok" /\ DecodeHeader(last.arg).command = CMD_ACK

\* The segment of buffer buf with sequence number sn, as a set.
SegmentsOf(buf, sn) == {buf[i] : i \in {j \in 1..Len(buf) : buf[j].sequence_num = sn}}

\* C34: an input with ACKs leaves every in-flight segment it does not
\* acknowledge in flight, its fastack one higher when its sn is below the
\* largest acked sn and unchanged otherwise; with fast_resend = k > 0 the next
\* flush sends a segment whose fastack has reached k although it is not due,
\* resets its fastack and increments its xmit; with fast_resend = 0 no segment
\* is sent again before its resend_time.
C34_FastRetransmit ==
    /\ AckInput =>
          LET ack == DecodeHeader(last.arg)
          IN  \A i \in 1..Len(last.pre.send_buffer) :
                  LET seg == last.pre.send_buffer[i]
                  IN  (seg.sequence_num >= ack.unacked_sequence_num
                          /\ seg.sequence_num # ack.sequence_num) =>
                        SegmentsOf(sender.send_buffer, seg.sequence_num) =
                            {[seg EXCEPT !.fastack =
                                 IF seg.sequence_num < ack.sequence_num THEN @ + 1 ELSE @]}
    /\ Flushed =>
          \A i \in 1..Len(last.pre.send_buffer) :
              LET seg == last.pre.send_buffer[i]
              IN  (seg.xmit >= 1 /\ last.arg < seg.resend_time) =>
                    IF FastackReached(last.pre, seg)
                    THEN /\ PushEmitted(seg.sequence_num)
                         /\ sender.send_buffer[i].fastack = 0
                         /\ sender.send_buffer[i].xmit = seg.xmit + 1
                    ELSE ~PushEmitted(seg.sequence_num)

\* C35: an input changes cwnd and incr only if use_congestion_control is
\* enabled and the call advanced una; when it is enabled and the growth step
\* is taken, cwnd grows by one while cwnd < ssthresh (slow start) and by at
\* most one otherwise (congestion avoidance), and is at most remote_wnd after
\* the step.
C35_CongestionWindowGrowth ==
    (last.op = "input" /\ last.res = "Ok") =>
        LET pre      == last.pre
            advanced == sender.unacked_send_sequence_num > pre.unacked_send_sequence_num
            grown    == \/ sender.congestion_window_size # pre.congestion_window_size
                        \/ sender.incr # pre.incr
        IN  /\ grown => pre.use_congestion_control /\ advanced
            /\ (pre.use_congestion_control /\ advanced
                   /\ pre.congestion_window_size < sender.remote_window_size) =>
                  /\ pre.congestion_window_size < pre.ssthresh =>
                        sender.congestion_window_size = pre.congestion_window_size + 1
                  /\ pre.congestion_window_size >= pre.ssthresh =>
                        sender.congestion_window_size \in
                            {pre.congestion_window_size, pre.congestion_window_size + 1}
                  /\ sender.congestion_window_size <= sender.remote_window_size

(***************************************************************************)
(* SpecProbe: a sender whose peer advertises a window of 0 or more, before *)
(* the first flush or after some window probes, updated after delays.      *)
(***************************************************************************)
ProbeDelays == {0, 7000, 120000}
ProbeWindows == {0, 4}

\* a WINS segment of the peer advertising window_size
WindowSegment(window_size) ==
    Encode([InSeg(CMD_WINS, 0, 0, 0, <<>>) EXCEPT !.window_size = window_size])

RECURSIVE ProbedEngine(_, _)
\* engine c after n more updates, each at the next_probe_time of the one before
ProbedEngine(c, n) ==
    IF n = 0 THEN c
    ELSE CHOOSE r \in {ProbedEngine(next, n - 1) :
                          next \in {Update(c, c.next_probe_time).conn}} : TRUE

\* new(SessionId); input of a WINS segment advertising window 0; update(0)
ArmedEngine ==
    CHOOSE r \in {Update(c, 0).conn :
                     c \in {Input(NewConnection(SessionId), WindowSegment(0)).conn}} : TRUE

InitProbe ==
    /\ sender \in {NewConnection(SessionId)} \cup {ProbedEngine(ArmedEngine, n) : n \in 0..MaxProbes}
    /\ receiver = NewConnection(SessionId)
    /\ wire_sr = {} /\ wire_rs = {}
    /\ sent = <<>> /\ delivered = <<>> /\ fed = {}
    /\ last = NoCall(sender)
    /\ endpoint = NewEndpoint(DefaultConfig)
    /\ fragment_buffer = NewSequenceBuffer(BufferSize)
    /\ steps = 0

\* sender.update(now), now being delay after the last update
ProbeUpdateCall(delay) == ConfigUpdateCall(sender.current_time + delay)

\* sender.input of a WINS segment advertising window_size
ProbeWindowCall(window_size) == DeliverToSender(WindowSegment(window_size))

NextProbe ==
    \/ \E delay \in ProbeDelays : steps < MaxProbeSteps /\ ProbeUpdateCall(delay)
    \/ \E window_size \in ProbeWindows : steps < MaxProbeSteps /\ ProbeWindowCall(window_size)

SpecProbe == InitProbe /\ [][NextProbe]_vars

\* C36: while remote_wnd is 0, the first flush arms probe_wait = 7000 and
\* next_probe_time = now + 7000 and encodes no WASK; a later flush with
\* now >= next_probe_time encodes exactly one WASK, multiplies probe_wait by
\* 1.5 up to 120000 and sets next_probe_time = now + probe_wait; a flush
\* before next_probe_time encodes no WASK and leaves the timer; a flush that
\* sees remote_wnd > 0 sets probe_wait = 0 and next_probe_time = 0 and encodes
\* no WASK.
C36_ZeroWindowProbe ==
    Flushed =>
        LET pre  == last.pre
            now  == last.arg
            wask == Len(EmittedOf(CMD_WASK))
            grown == pre.probe_wait + pre.probe_wait \div 2
        IN  IF pre.remote_window_size = 0
            THEN IF pre.probe_wait = 0
                 THEN /\ sender.probe_wait = 7000
                      /\ sender.next_probe_time = now + 7000
                      /\ wask = 0
                 ELSE IF now >= pre.next_probe_time
                 THEN /\ wask = 1
                      /\ sender.probe_wait = IF grown > 120000 THEN 120000 ELSE grown
                      /\ sender.next_probe_time = now + sender.probe_wait
                 ELSE /\ wask = 0
                      /\ sender.probe_wait = pre.probe_wait
                      /\ sender.next_probe_time = pre.next_probe_time
            ELSE /\ sender.probe_wait = 0
                 /\ sender.next_probe_time = 0
                 /\ wask = 0

\* a probe whose wait, grown by half, is cut to 120000
C36_Witness ==
    /\ Flushed
    /\ last.pre.remote_window_size = 0
    /\ last.pre.probe_wait + last.pre.probe_wait \div 2 > 120000
    /\ last.pre.probe_wait < 120000
    /\ Len(EmittedOf(CMD_WASK)) = 1
    /\ sender.probe_wait = 120000

====
